---------------------------- MODULE Spec2Model ----------------------------
(***************************************************************************)
(* Voice-following teleprompter: the useVoiceMode hook (word-by-word       *)
(* tracker, src/unnamed/part_001), the FuseTextMatcher alignment engine    *)
(* (src/unnamed/part_000) and the page tracker that drives it              *)
(* (src/app/page.tsx).                                                     *)
(*                                                                         *)
(* Strings are sequences of one-character strings, <<"a","b"," ","c">>,    *)
(* so that tokenisation and normalisation are computed, not assumed.       *)
(* fuse.js is a library outside the repository; its scoring is modelled    *)
(* as the Bitap score it documents: the least number of edits that turn    *)
(* the pattern into some substring of the text, divided by the pattern's   *)
(* length. Its location penalty and field-length norm are left out.        *)
(***************************************************************************)
EXTENDS Integers, Sequences, FiniteSets, TLC

Min(a, b) == IF a <= b THEN a ELSE b

Max(a, b) == IF a >= b THEN a ELSE b

Abs(a) == IF a < 0 THEN -a ELSE a

\* ------------------------------------------------------------------ strings

\* the characters \s matches, of the model's alphabet
Whitespace == {" ", "\n"}

\* String.prototype.toLowerCase, on the model's alphabet
LowerChar(c) ==
    CASE c = "A" -> "a"
      [] c = "B" -> "b"
      [] c = "C" -> "c"
      [] OTHER -> c

ToLowerCase(s) == [i \in 1..Len(s) |-> LowerChar(s[i])]

RECURSIVE TrimStart(_)
TrimStart(s) ==
    IF s # <<>> /\ Head(s) \in Whitespace THEN TrimStart(Tail(s)) ELSE s

RECURSIVE TrimEnd(_)
TrimEnd(s) ==
    IF s # <<>> /\ s[Len(s)] \in Whitespace
    THEN TrimEnd(SubSeq(s, 1, Len(s) - 1))
    ELSE s

\* String.prototype.trim
Trim(s) == TrimEnd(TrimStart(s))

\* s.split(c) for a one-character separator in seps: every separator cuts,
\* so adjacent separators and separators at the ends yield empty pieces
RECURSIVE SplitAt(_, _, _, _)
SplitAt(s, seps, done, piece) ==
    IF s = <<>> THEN Append(done, piece)
    ELSE IF Head(s) \in seps
         THEN SplitAt(Tail(s), seps, Append(done, piece), <<>>)
         ELSE SplitAt(Tail(s), seps, done, Append(piece, Head(s)))

SplitChar(s, seps) == SplitAt(s, seps, <<>>, <<>>)

\* Array.prototype.filter(p => p is not empty)
RECURSIVE NonEmpty(_)
NonEmpty(pieces) ==
    IF pieces = <<>> THEN <<>>
    ELSE IF Head(pieces) = <<>> THEN NonEmpty(Tail(pieces))
         ELSE <<Head(pieces)>> \o NonEmpty(Tail(pieces))

\* s.split(/[seps]+/): a run of separators cuts once; a run at the start or
\* at the end of s still yields one empty piece there
SplitRuns(s, seps) ==
    IF s = <<>> THEN << <<>> >>
    ELSE (IF s[1] \in seps THEN << <<>> >> ELSE <<>>)
         \o NonEmpty(SplitChar(s, seps))
         \o (IF s[Len(s)] \in seps THEN << <<>> >> ELSE <<>>)

\* Array.prototype.join(" ")
RECURSIVE Join(_)
Join(pieces) ==
    IF pieces = <<>> THEN <<>>
    ELSE IF Len(pieces) = 1 THEN pieces[1]
         ELSE pieces[1] \o <<" ">> \o Join(Tail(pieces))

RECURSIVE RemoveChars(_, _)
RemoveChars(s, chars) ==
    IF s = <<>> THEN <<>>
    ELSE IF Head(s) \in chars THEN RemoveChars(Tail(s), chars)
         ELSE <<Head(s)>> \o RemoveChars(Tail(s), chars)

\* -------------------------------------------------------------------- Fuse

\* one row of the edit-distance table from the row above it
RECURSIVE BitapRow(_, _, _, _)
BitapRow(prev, pch, text, acc) ==
    LET j == Len(acc) IN
    IF j > Len(text) THEN acc
    ELSE LET sub == prev[j] + (IF LowerChar(text[j]) = LowerChar(pch) THEN 0 ELSE 1)
             del == prev[j + 1] + 1
             ins == acc[j] + 1
         IN  BitapRow(prev, pch, text, Append(acc, Min(sub, Min(del, ins))))

RECURSIVE BitapRows(_, _, _, _)
BitapRows(pattern, text, i, prev) ==
    IF i > Len(pattern) THEN prev
    ELSE BitapRows(pattern, text, i + 1, BitapRow(prev, pattern[i], text, <<i>>))

RECURSIVE SeqMin(_)
SeqMin(s) == IF Len(s) = 1 THEN s[1] ELSE Min(s[1], SeqMin(Tail(s)))

\* the errors of the best approximate occurrence of pattern in text;
\* Fuse's score of the item is FuseErrors / Len(pattern)
FuseErrors(pattern, text) ==
    SeqMin(BitapRows(pattern, text, 1, [j \in 1..(Len(text) + 1) |-> 0]))

\* score <= threshold, the threshold in hundredths
FuseWithin(pattern, text, threshold) ==
    100 * FuseErrors(pattern, text) <= threshold * Len(pattern)


\* the least element of a sequence of errors and, of equals, the first: where
\* fuse.search puts results[0]
RECURSIVE FirstLeast(_, _, _)
FirstLeast(errs, k, best) ==
    IF k > Len(errs) THEN best
    ELSE IF errs[k] >= 0 /\ (best = 0 \/ errs[k] < errs[best])
         THEN FirstLeast(errs, k + 1, k)
         ELSE FirstLeast(errs, k + 1, best)

\* fuse.search(pattern)[0].item.id over a list of words keyed by rawWord: the
\* item of least score among those within the threshold, the first of equals;
\* -1 when results is empty
FuseBestId(slice, pattern, threshold) ==
    LET errs == [k \in 1..Len(slice) |->
                    LET e == FuseErrors(pattern, slice[k].rawWord)
                    IN  IF 100 * e <= threshold * Len(pattern) THEN e ELSE -1]
        best == FirstLeast(errs, 1, 0)
    IN  IF best = 0 THEN -1 ELSE slice[best].id

\* ------------------------------------------------------- useVoiceMode (hook)

FUSE_THRESHOLD == 40

SEARCH_WINDOW_SIZE == 8

\* the most startListening calls whose sockets, timers or awaits are alive at once
MaxHookStarts == 1

\* the characters the rawWord regular expression removes (all but the backquote,
\* which a TLA+ string cannot hold)
HookPunctuation ==
    {".", ",", "/", "#", "!", "$", "%", "^", "&", "*", ";", ":", "{", "}",
     "=", "-", "_", "~", "(", ")"}

\* the scripts the hook is given: "Ab. cd ef ab gh cd ab ef gh ij" and "cd ab"
HookScripts ==
    << <<"A","b","."," ","c","d"," ","e","f"," ","a","b"," ","g","h"," ",
         "c","d"," ","a","b"," ","e","f"," ","g","h"," ","i","j">>,
       <<"c","d"," ","a","b">> >>

\* the transcript texts a message carries
HookTranscripts ==
    { <<>>,
      <<"a","b">>,
      <<"a","b"," ">>,
      <<"c","d"," ","e","f">>,
      <<"g","h">>,
      <<"i","j">>,
      <<"a","b","d">>,
      <<"a","c">> }

VARIABLES
    initialScript,          \* hook: index of the script text in HookScripts
    scriptWords,            \* hook: [0..n-1 -> ScriptWord]
    lastMatchedWordIndex,   \* hook: lastMatchedWordIndex.current
    isConnected,
    isListening,
    isShowingCountdown,
    socketRef,              \* hook: the socket of socketRef.current, 0 for null
    mediaRecorderRef,       \* hook: the audio pipeline of mediaRecorderRef.current, 0 for null
    countdownIntervalRef,   \* hook: the interval of countdownIntervalRef.current, 0 for null
    hookCalls,              \* hook: the startListening calls, by number
    hookSockets,            \* hook: the WebSockets created, by the call that created them
    hookIntervals,          \* hook: the countdown intervals still ticking
    hookAudio               \* hook: the audio pipelines still open

hookVars ==
    <<initialScript, scriptWords, lastMatchedWordIndex, isConnected, isListening,
      isShowingCountdown, socketRef, mediaRecorderRef, countdownIntervalRef,
      hookCalls, hookSockets, hookIntervals, hookAudio>>

\* the state of the page component
VARIABLES
    script,              \* useState script, as its number in PageScripts; the
                         \* script effect keeps fuseMatcherRef built from it
    scrollMode,          \* settings.scrollMode
    voiceState,          \* useState voiceState
    lastTranscriptRef,   \* lastTranscriptRef.current
    debounceTimeoutRef,  \* debounceTimeoutRef.current: a timer id, 0 for null
    timers,              \* the setTimeout callbacks that are pending
    pageCalls,           \* the startVoiceListening calls that are running
    pageSockets,         \* the sockets and audio pipelines that exist
    mounted,             \* FALSE once a state updater has thrown
    timerEvent           \* history: what the last step did to the debounce timer

pageVars ==
    <<script, scrollMode, voiceState, lastTranscriptRef, debounceTimeoutRef,
      timers, pageCalls, pageSockets, mounted, timerEvent>>

\* the calls of the pure functions: FuseTextMatcher and the fuzzy_matching scorers
VARIABLES
    engine,              \* a FuseTextMatcher with its findBestMatch call
    fuzz                 \* a call of a fuzzy_matching function

pureVars == <<engine, fuzz>>

vars == <<hookVars, pageVars, pureVars>>

\* processedScript of the script effect
ProcessScript(text) ==
    LET pieces == SplitRuns(Trim(text), Whitespace)
    IN  [i \in 0..(Len(pieces) - 1) |->
            [id |-> i,
             rawWord |-> RemoveChars(ToLowerCase(pieces[i + 1]), HookPunctuation),
             isSpoken |-> FALSE,
             isCurrent |-> FALSE]]

\* the scriptWords of each script, as a render holds them
HookWords == [s \in 1..Len(HookScripts) |-> ProcessScript(HookScripts[s])]

WordCount(words) == Cardinality(DOMAIN words)

\* Array.prototype.slice(start, end) of a word list
Slice(words, start, end) ==
    LET n == WordCount(words)
        hi == Min(end, n)
    IN  [k \in 1..Max(0, hi - start) |-> words[start + k - 1]]

\* a window that starts at the first word of the script instead
SearchSliceFromStart(words, lastMatch) ==
    Slice(words, 0, lastMatch + 1 + SEARCH_WINDOW_SIZE)

\* a window of one word more
SearchSliceWide(words, lastMatch) ==
    Slice(words, lastMatch + 1, lastMatch + 2 + SEARCH_WINDOW_SIZE)

\* the window handleFinalTranscript and handlePartialTranscript search
SearchSlice(words, lastMatch) ==
    Slice(words, lastMatch + 1, lastMatch + 1 + SEARCH_WINDOW_SIZE)

\* an updater that marks the matched word alone
MarkSpokenMatchOnly(words, matchedIndexInScript) ==
    [i \in DOMAIN words |->
        IF i = matchedIndexInScript
        THEN [words[i] EXCEPT !.isSpoken = TRUE, !.isCurrent = FALSE]
        ELSE words[i]]

\* an updater that marks the words spoken and leaves isCurrent as it is
MarkSpokenKeepCurrent(words, matchedIndexInScript) ==
    [i \in DOMAIN words |->
        IF i <= matchedIndexInScript
        THEN [words[i] EXCEPT !.isSpoken = TRUE]
        ELSE words[i]]

\* the setScriptWords updater of handleFinalTranscript
MarkSpoken(words, matchedIndexInScript) ==
    [i \in DOMAIN words |->
        IF i <= matchedIndexInScript
        THEN [words[i] EXCEPT !.isSpoken = TRUE, !.isCurrent = FALSE]
        ELSE words[i]]

\* an updater that leaves the earlier current word current
MarkCurrentKeepOthers(words, currentIndexInScript) ==
    [i \in DOMAIN words |->
        [words[i] EXCEPT !.isCurrent = (@ \/ words[i].id = currentIndexInScript)]]

\* the setScriptWords updater of handlePartialTranscript
MarkCurrent(words, currentIndexInScript) ==
    [i \in DOMAIN words |->
        [words[i] EXCEPT !.isCurrent = (words[i].id = currentIndexInScript)]]

\* the setScriptWords updater of resetVoiceMode
ClearWords(words) ==
    [i \in DOMAIN words |-> [words[i] EXCEPT !.isSpoken = FALSE, !.isCurrent = FALSE]]

\* the loop of handleFinalTranscript over the transcribed words; closureWords is
\* the scriptWords the callback closed over, words the state the updaters act on
RECURSIVE FinalLoop(_, _, _, _)
FinalLoop(transcribedWords, closureWords, localLastMatchIndex, words) ==
    IF transcribedWords = <<>>
    THEN [last |-> localLastMatchIndex, words |-> words]
    ELSE LET searchSlice == SearchSlice(closureWords, localLastMatchIndex)
             m == IF Len(searchSlice) = 0 THEN -1
                  ELSE FuseBestId(searchSlice, Head(transcribedWords), FUSE_THRESHOLD)
         IN  IF m = -1
             THEN FinalLoop(Tail(transcribedWords), closureWords, localLastMatchIndex, words)
             ELSE FinalLoop(Tail(transcribedWords), closureWords, m, MarkSpoken(words, m))

handleFinalTranscript(text, closureWords) ==
    IF text = <<>>
    THEN UNCHANGED <<scriptWords, lastMatchedWordIndex>>
    ELSE LET transcribedWords == NonEmpty(SplitChar(ToLowerCase(text), {" "}))
             r == FinalLoop(transcribedWords, closureWords, lastMatchedWordIndex, scriptWords)
         IN  /\ scriptWords' = r.words
             /\ lastMatchedWordIndex' = r.last

\* a partial handled as a final is
handlePartialAsFinal(text, closureWords) ==
    handleFinalTranscript(text, closureWords)

handlePartialTranscript(text, closureWords) ==
    LET partialWords == SplitChar(ToLowerCase(text), {" "})
        lastPartialWord == partialWords[Len(partialWords)]
        searchSlice == SearchSlice(closureWords, lastMatchedWordIndex)
        m == IF text = <<>> \/ lastPartialWord = <<>> \/ Len(searchSlice) = 0 THEN -1
             ELSE FuseBestId(searchSlice, lastPartialWord, FUSE_THRESHOLD + 10)
    IN  /\ scriptWords' = IF m = -1 THEN scriptWords ELSE MarkCurrent(scriptWords, m)
        /\ UNCHANGED lastMatchedWordIndex

\* a slot of hookCalls: pc is where the call stands, script and showing are the
\* initialScript and isShowingCountdown of the render whose startListening ran
NoCall == [pc |-> "none", script |-> 0, showing |-> FALSE]

\* a slot of hookSockets: the socket's handlers are closures of the render of
\* the call that created it
NoSocket == [readyState |-> "none", script |-> 0, showing |-> FALSE]

HookInit ==
    /\ initialScript \in 1..Len(HookScripts)
    /\ scriptWords = HookWords[initialScript]
    /\ lastMatchedWordIndex = -1
    /\ isConnected = FALSE
    /\ isListening = FALSE
    /\ isShowingCountdown = FALSE
    /\ socketRef = 0
    /\ mediaRecorderRef = 0
    /\ countdownIntervalRef = 0
    /\ hookCalls = [i \in 1..MaxHookStarts |-> NoCall]
    /\ hookSockets = [i \in 1..MaxHookStarts |-> NoSocket]
    /\ hookIntervals = {}
    /\ hookAudio = {}

hookTracker == <<scriptWords, lastMatchedWordIndex>>

hookSession ==
    <<isConnected, isListening, socketRef, mediaRecorderRef, countdownIntervalRef,
      hookSockets, hookIntervals, hookAudio>>

\* the script effect: initialScript changed
ScriptEffect(s) ==
    /\ s # initialScript
    /\ initialScript' = s
    /\ scriptWords' = HookWords[s]
    /\ lastMatchedWordIndex' = -1
    /\ UNCHANGED <<isShowingCountdown, hookCalls>>
    /\ UNCHANGED hookSession
    /\ UNCHANGED <<pageVars, pureVars>>

\* a slot no call, socket, interval, audio pipeline or ref still uses
FreeSlot(i) ==
    /\ hookCalls[i].pc = "none"
    /\ hookSockets[i].readyState = "none"
    /\ i \notin hookIntervals \cup hookAudio
    /\ i \notin {socketRef, mediaRecorderRef, countdownIntervalRef}

\* startListening up to its first await
startListening(i) ==
    /\ ~isListening
    /\ FreeSlot(i)
    /\ \A j \in 1..(i - 1) : ~FreeSlot(j)
    /\ hookCalls' = [hookCalls EXCEPT ![i] =
                        [pc |-> "permission", script |-> initialScript,
                         showing |-> isShowingCountdown]]
    /\ UNCHANGED <<initialScript, isShowingCountdown>>
    /\ UNCHANGED hookTracker
    /\ UNCHANGED hookSession
    /\ UNCHANGED <<pageVars, pureVars>>

\* the first getUserMedia resolves; startCountdown sets up its interval
startCountdown(i) ==
    /\ hookCalls[i].pc = "permission"
    /\ hookCalls' = [hookCalls EXCEPT ![i].pc = "countdown"]
    /\ isShowingCountdown' = TRUE
    /\ countdownIntervalRef' = i
    /\ hookIntervals' = hookIntervals \cup {i}
    /\ UNCHANGED <<initialScript, isConnected, isListening, socketRef,
                   mediaRecorderRef, hookSockets, hookAudio>>
    /\ UNCHANGED hookTracker
    /\ UNCHANGED <<pageVars, pureVars>>

\* a tick of interval i with count at 0 or below: it clears the interval
\* countdownIntervalRef holds, which need not be i, and resolves the promise
CountdownElapsed(i) ==
    /\ i \in hookIntervals
    /\ hookIntervals' = hookIntervals \ {countdownIntervalRef}
    /\ countdownIntervalRef' = 0
    /\ isShowingCountdown' = FALSE
    /\ hookCalls' = IF hookCalls[i].pc = "countdown"
                    THEN [hookCalls EXCEPT ![i].pc = "token"]
                    ELSE hookCalls
    /\ UNCHANGED <<initialScript, isConnected, isListening, socketRef,
                   mediaRecorderRef, hookSockets, hookAudio>>
    /\ UNCHANGED hookTracker
    /\ UNCHANGED <<pageVars, pureVars>>

\* the token arrives: the WebSocket is created and its handlers are set
CreateSocket(i) ==
    /\ hookCalls[i].pc = "token"
    /\ hookCalls' = [hookCalls EXCEPT ![i].pc = "media"]
    /\ hookSockets' = [hookSockets EXCEPT ![i] =
                          [readyState |-> "connecting", script |-> hookCalls[i].script,
                           showing |-> hookCalls[i].showing]]
    /\ socketRef' = i
    /\ UNCHANGED <<initialScript, isConnected, isListening, isShowingCountdown,
                   mediaRecorderRef, countdownIntervalRef, hookIntervals, hookAudio>>
    /\ UNCHANGED hookTracker
    /\ UNCHANGED <<pageVars, pureVars>>

\* the second getUserMedia resolves: the audio pipeline, then setIsListening(true)
SetListening(i) ==
    /\ hookCalls[i].pc = "media"
    /\ hookCalls' = [hookCalls EXCEPT ![i] = NoCall]
    /\ mediaRecorderRef' = i
    /\ hookAudio' = hookAudio \cup {i}
    /\ isListening' = TRUE
    /\ UNCHANGED <<initialScript, isConnected, isShowingCountdown, socketRef,
                   countdownIntervalRef, hookSockets, hookIntervals>>
    /\ UNCHANGED hookTracker
    /\ UNCHANGED <<pageVars, pureVars>>

\* an await of startListening rejects (or the token is missing): the catch block
StartFails(i) ==
    /\ hookCalls[i].pc \in {"permission", "token", "media"}
    /\ hookCalls' = [hookCalls EXCEPT ![i] = NoCall]
    /\ isShowingCountdown' = FALSE
    /\ hookIntervals' = hookIntervals \ {countdownIntervalRef}
    /\ countdownIntervalRef' = 0
    /\ UNCHANGED <<initialScript, isConnected, isListening, socketRef,
                   mediaRecorderRef, hookSockets, hookAudio>>
    /\ UNCHANGED hookTracker
    /\ UNCHANGED <<pageVars, pureVars>>

\* stopListening as the render with the given isListening and isShowingCountdown
\* defined it; isShowingCountdown is left to the caller
stopListening(listening, showing) ==
    IF ~listening /\ ~showing
    THEN UNCHANGED hookSession
    ELSE /\ hookIntervals' = hookIntervals \ {countdownIntervalRef}
         /\ countdownIntervalRef' = 0
         /\ hookAudio' = hookAudio \ {mediaRecorderRef}
         /\ mediaRecorderRef' = 0
         /\ hookSockets' = IF socketRef = 0 THEN hookSockets
                           ELSE [hookSockets EXCEPT ![socketRef] = NoSocket]
         /\ socketRef' = 0
         /\ isListening' = FALSE
         /\ isConnected' = FALSE

\* isShowingCountdown after stopListening
ShowingAfterStop(listening, showing) ==
    IF ~listening /\ ~showing THEN isShowingCountdown ELSE FALSE

\* the owner of the hook calls stopListening of the current render
HookStop ==
    /\ stopListening(isListening, isShowingCountdown)
    /\ isShowingCountdown' = ShowingAfterStop(isListening, isShowingCountdown)
    /\ UNCHANGED <<initialScript, hookCalls>>
    /\ UNCHANGED hookTracker
    /\ UNCHANGED <<pageVars, pureVars>>

resetVoiceMode ==
    /\ stopListening(isListening, isShowingCountdown)
    /\ scriptWords' = ClearWords(scriptWords)
    /\ isShowingCountdown' = FALSE
    /\ lastMatchedWordIndex' = -1
    /\ UNCHANGED <<initialScript, hookCalls>>
    /\ UNCHANGED <<pageVars, pureVars>>

\* socketRef.current.onopen
HookSocketOpen(i) ==
    /\ hookSockets[i].readyState = "connecting"
    /\ hookSockets' = [hookSockets EXCEPT ![i].readyState = "open"]
    /\ isConnected' = TRUE
    /\ UNCHANGED <<initialScript, hookCalls, isListening, isShowingCountdown,
                   socketRef, mediaRecorderRef, countdownIntervalRef, hookIntervals,
                   hookAudio>>
    /\ UNCHANGED hookTracker
    /\ UNCHANGED <<pageVars, pureVars>>

\* socketRef.current.onmessage with a final transcript (message_type
\* FinalTranscript, or a Turn with end_of_turn)
HookFinalMessage(i, text) ==
    /\ hookSockets[i].readyState = "open"
    /\ handleFinalTranscript(text, HookWords[hookSockets[i].script])
    /\ UNCHANGED <<initialScript, hookCalls, isShowingCountdown>>
    /\ UNCHANGED hookSession
    /\ UNCHANGED <<pageVars, pureVars>>

\* socketRef.current.onmessage with a partial transcript
HookPartialMessage(i, text) ==
    /\ hookSockets[i].readyState = "open"
    /\ handlePartialTranscript(text, HookWords[hookSockets[i].script])
    /\ UNCHANGED <<initialScript, hookCalls, isShowingCountdown>>
    /\ UNCHANGED hookSession
    /\ UNCHANGED <<pageVars, pureVars>>

\* the connection fails: onerror runs the stopListening its render defined (where
\* isListening was false), then the socket is closed and onclose runs
HookSocketError(i) ==
    /\ hookSockets[i].readyState \in {"connecting", "open"}
    /\ IF hookSockets[i].showing
       THEN /\ hookIntervals' = hookIntervals \ {countdownIntervalRef}
            /\ countdownIntervalRef' = 0
            /\ hookAudio' = hookAudio \ {mediaRecorderRef}
            /\ mediaRecorderRef' = 0
            /\ hookSockets' = [j \in DOMAIN hookSockets |->
                                 IF j = i \/ j = socketRef
                                 THEN NoSocket
                                 ELSE hookSockets[j]]
            /\ socketRef' = 0
            /\ isListening' = FALSE
            /\ isShowingCountdown' = FALSE
       ELSE /\ hookSockets' = [hookSockets EXCEPT ![i] = NoSocket]
            /\ UNCHANGED <<hookIntervals, countdownIntervalRef, hookAudio, mediaRecorderRef,
                           socketRef, isListening, isShowingCountdown>>
    /\ isConnected' = FALSE
    /\ UNCHANGED <<initialScript, hookCalls>>
    /\ UNCHANGED hookTracker
    /\ UNCHANGED <<pageVars, pureVars>>

HookNext ==
    \/ \E s \in 1..Len(HookScripts) : ScriptEffect(s)
    \/ \E i \in 1..MaxHookStarts : startListening(i)
    \/ \E i \in 1..MaxHookStarts : startCountdown(i)
    \/ \E i \in 1..MaxHookStarts : CountdownElapsed(i)
    \/ \E i \in 1..MaxHookStarts : CreateSocket(i)
    \/ \E i \in 1..MaxHookStarts : SetListening(i)
    \/ \E i \in 1..MaxHookStarts : StartFails(i)
    \/ HookStop
    \/ resetVoiceMode
    \/ \E i \in 1..MaxHookStarts : HookSocketOpen(i)
    \/ \E i \in 1..MaxHookStarts : HookSocketError(i)
    \/ \E i \in 1..MaxHookStarts, text \in HookTranscripts : HookFinalMessage(i, text)
    \/ \E i \in 1..MaxHookStarts, text \in HookTranscripts : HookPartialMessage(i, text)

\* ------------------------------------------------------------ FuseTextMatcher

\* a run of n characters of text, each of which occurs in the pattern: what
\* Fuse requires of a match under minMatchCharLength n
HasMatchRun(pattern, text, n) ==
    LET alphabet == {LowerChar(pattern[k]) : k \in 1..Len(pattern)}
    IN  \E start \in 1..(Len(text) - n + 1) :
            \A k \in start..(start + n - 1) : LowerChar(text[k]) \in alphabet

\* words of a text: split(/\s+/) and the filter on empty pieces
WordsOf(text) == NonEmpty(SplitRuns(text, Whitespace))

RECURSIVE TrimAll(_)
TrimAll(pieces) ==
    IF pieces = <<>> THEN <<>> ELSE <<Trim(Head(pieces))>> \o TrimAll(Tail(pieces))

\* sentenceWordOffsets: the running sum of the sentences' word counts
RECURSIVE WordOffsets(_, _)
WordOffsets(sentences, wordOffset) ==
    IF sentences = <<>> THEN <<>>
    ELSE <<wordOffset>>
         \o WordOffsets(Tail(sentences), wordOffset + Len(WordsOf(Head(sentences))))

\* the constructor: words, sentences and sentenceWordOffsets of a script text
FuseTextMatcher(text) ==
    LET sentences == NonEmpty(TrimAll(SplitRuns(text, {".", "!", "?"})))
    IN  [words |-> WordsOf(text),
         sentences |-> sentences,
         sentenceWordOffsets |-> WordOffsets(sentences, 0)]

\* findBestMatch and findWordLevelMatch return null
NullMatch == [index |-> -1, score |-> 0, spokenWordIndices |-> <<>>, nextWordIndex |-> -1]

\* this.fuse.search(transcript): the sentences equal to the pattern, and those
\* within threshold 0.4 that hold a match run of minMatchCharLength 3, by score
\* and then by index; as the refIndex of each, counted from 1
RECURSIVE SearchOrder(_, _)
SearchOrder(errs, taken) ==
    LET left == {k \in 1..Len(errs) : errs[k] >= 0 /\ k \notin taken}
        next == CHOOSE k \in left :
                    \A o \in left : errs[k] < errs[o] \/ (errs[k] = errs[o] /\ k <= o)
    IN  IF left = {} THEN <<>> ELSE <<next>> \o SearchOrder(errs, taken \cup {next})

SentenceSearch(sentences, transcript) ==
    SearchOrder([k \in 1..Len(sentences) |->
                    LET e == FuseErrors(transcript, sentences[k])
                    IN  IF ToLowerCase(transcript) = ToLowerCase(sentences[k]) THEN 0
                        ELSE IF 100 * e <= 40 * Len(transcript)
                                /\ HasMatchRun(transcript, sentences[k], 3)
                        THEN e ELSE -1],
                {})

\* scores are kept as integers: a score x of the code is x * ScoreUnit here
ScoreUnit(transcript) == 100 * Len(transcript)

\* a window score whose forward bonus goes to the windows at and before the
\* prior position
WindowScoreBackward(windowText, transcript, wordIndex, currentPosition) ==
    LET u == Len(transcript)
        e == FuseErrors(transcript, windowText)
        forwardBonus == IF wordIndex <= currentPosition THEN 10 * u ELSE 0
        proximityBonus == Max(0, 10 * u - Abs(wordIndex - currentPosition) * u)
    IN  IF 100 * e > 60 * u THEN -1
        ELSE (100 * u - 100 * e)
             + (IF currentPosition # -1 THEN forwardBonus + proximityBonus ELSE 0)

\* the score of one window, forward and proximity bonus included; -1 when
\* windowFuse.search(transcript) is empty (threshold 0.6)
WindowScore(windowText, transcript, wordIndex, currentPosition) ==
    LET u == Len(transcript)
        e == FuseErrors(transcript, windowText)
        forwardBonus == IF wordIndex >= currentPosition THEN 10 * u ELSE 0
        proximityBonus == Max(0, 10 * u - Abs(wordIndex - currentPosition) * u)
    IN  IF 100 * e > 60 * u THEN -1
        ELSE (100 * u - 100 * e)
             + (IF currentPosition # -1 THEN forwardBonus + proximityBonus ELSE 0)

\* the two loops with a nextWordIndex that is index + windowSize at the end
\* of the script as well
RECURSIVE WindowLoopNoSentinel(_, _, _, _, _, _, _, _)
WindowLoopNoSentinel(sentenceWords, transcript, sentenceWordOffset, currentPosition, wordCount, sizes, at, best) ==
    LET w == at[1]
        i == at[2]
        windowSize == sizes[w]
        index == sentenceWordOffset + i
        score == WindowScore(Join(SubSeq(sentenceWords, i + 1, i + windowSize)),
                             transcript, index, currentPosition)
        found == [index |-> index,
                  score |-> score,
                  spokenWordIndices |-> [k \in 1..windowSize |-> index + k - 1],
                  nextWordIndex |-> index + windowSize]
    IN  IF w > Len(sizes) THEN best
        ELSE IF i > Len(sentenceWords) - windowSize
             THEN WindowLoopNoSentinel(sentenceWords, transcript, sentenceWordOffset,
                             currentPosition, wordCount, sizes, <<w + 1, 0>>, best)
             ELSE WindowLoopNoSentinel(sentenceWords, transcript, sentenceWordOffset,
                             currentPosition, wordCount, sizes, <<w, i + 1>>,
                             IF score > best.score THEN found ELSE best)

\* the two loops of findWordLevelMatch: window size number w of sizes, from
\* offset i on; best is bestMatch (its score is bestScore)
RECURSIVE WindowLoop(_, _, _, _, _, _, _, _)
WindowLoop(sentenceWords, transcript, sentenceWordOffset, currentPosition, wordCount, sizes, at, best) ==
    LET w == at[1]
        i == at[2]
        windowSize == sizes[w]
        index == sentenceWordOffset + i
        score == WindowScore(Join(SubSeq(sentenceWords, i + 1, i + windowSize)),
                             transcript, index, currentPosition)
        found == [index |-> index,
                  score |-> score,
                  spokenWordIndices |-> [k \in 1..windowSize |-> index + k - 1],
                  nextWordIndex |-> IF index + windowSize < wordCount
                                    THEN index + windowSize ELSE -1]
    IN  IF w > Len(sizes) THEN best
        ELSE IF i > Len(sentenceWords) - windowSize
             THEN WindowLoop(sentenceWords, transcript, sentenceWordOffset,
                             currentPosition, wordCount, sizes, <<w + 1, 0>>, best)
             ELSE WindowLoop(sentenceWords, transcript, sentenceWordOffset,
                             currentPosition, wordCount, sizes, <<w, i + 1>>,
                             IF score > best.score THEN found ELSE best)

findWordLevelMatch(matcher, sentence, transcript, sentenceWordOffset, currentPosition) ==
    LET sentenceWords == WordsOf(ToLowerCase(sentence))
        transcriptWords == WordsOf(ToLowerCase(transcript))
        n == Len(transcriptWords)
    IN  IF Len(sentenceWords) = 0 \/ n = 0 THEN NullMatch
        ELSE WindowLoop(sentenceWords, transcript, sentenceWordOffset, currentPosition,
                        Len(matcher.words), <<n, Max(1, n - 1), n + 1, n + 2>>,
                        <<1, 0>>, NullMatch)

\* a loop over the top sentence matches that keeps the last of equal scores
RECURSIVE SentenceLoopKeepLast(_, _, _, _, _, _)
SentenceLoopKeepLast(matcher, transcript, currentPosition, sentenceResults, i, best) ==
    IF i > Min(3, Len(sentenceResults)) THEN best
    ELSE LET sentenceIndex == sentenceResults[i]
             wordMatch == findWordLevelMatch(matcher, matcher.sentences[sentenceIndex],
                              transcript, matcher.sentenceWordOffsets[sentenceIndex],
                              currentPosition)
         IN  SentenceLoopKeepLast(matcher, transcript, currentPosition, sentenceResults,
                                  i + 1,
                                  IF wordMatch.index # -1 /\ wordMatch.score >= best.score
                                  THEN wordMatch ELSE best)

\* the loop of findBestMatch over the top sentence matches
RECURSIVE SentenceLoop(_, _, _, _, _, _)
SentenceLoop(matcher, transcript, currentPosition, sentenceResults, i, best) ==
    IF i > Min(3, Len(sentenceResults)) THEN best
    ELSE LET sentenceIndex == sentenceResults[i]
             wordMatch == findWordLevelMatch(matcher, matcher.sentences[sentenceIndex],
                              transcript, matcher.sentenceWordOffsets[sentenceIndex],
                              currentPosition)
         IN  SentenceLoop(matcher, transcript, currentPosition, sentenceResults, i + 1,
                          IF wordMatch.index # -1 /\ wordMatch.score > best.score
                          THEN wordMatch ELSE best)

\* a jump guard that looks at the distance alone
JumpGuardByDistance(bestMatch, transcript, currentPosition) ==
    IF /\ bestMatch.index # -1
       /\ currentPosition # -1
       /\ Abs(bestMatch.index - currentPosition) > 20
    THEN NullMatch
    ELSE bestMatch

\* the jump guard of findBestMatch
JumpGuard(bestMatch, transcript, currentPosition) ==
    IF /\ bestMatch.index # -1
       /\ currentPosition # -1
       /\ Abs(bestMatch.index - currentPosition) > 20
       /\ bestMatch.score < 80 * Len(transcript)
    THEN NullMatch
    ELSE bestMatch

\* a findBestMatch that answers a blank transcript or an empty script with a
\* match at word 0
findBestMatchDefault(matcher, transcript, currentPosition) ==
    IF Trim(transcript) = <<>> \/ Len(matcher.words) = 0
    THEN [index |-> 0, score |-> 0, spokenWordIndices |-> <<>>, nextWordIndex |-> -1]
    ELSE LET sentenceResults == SentenceSearch(matcher.sentences, transcript)
         IN  IF Len(sentenceResults) = 0 THEN NullMatch
             ELSE JumpGuard(SentenceLoop(matcher, transcript, currentPosition,
                                         sentenceResults, 1, NullMatch),
                            transcript, currentPosition)

findBestMatch(matcher, transcript, currentPosition) ==
    IF Trim(transcript) = <<>> \/ Len(matcher.words) = 0 THEN NullMatch
    ELSE LET sentenceResults == SentenceSearch(matcher.sentences, transcript)
         IN  IF Len(sentenceResults) = 0 THEN NullMatch
             ELSE JumpGuard(SentenceLoop(matcher, transcript, currentPosition,
                                         sentenceResults, 1, NullMatch),
                            transcript, currentPosition)

\* -------------------------------------------------------------- page (TeleprompterApp)
\* Of the state of the page the tracker state is kept: isPlaying, isAtEnd,
\* the scroll position and currentTranscript are left out, and the audio
\* context, media stream and script processor are one audio pipeline. The
\* close event of a socket the page closes is part of the step that closes it.
\* A timer id is kept while a pending timer or debounceTimeoutRef holds it.

\* most startVoiceListening calls, and most sockets with their audio pipelines,
\* alive at once
MaxPageStarts == 1

\* script texts of the page
PageScripts ==
    << <<"a","b"," ","c","d","."," ","e","f"," ","a","b","!"," ","g","h">>,
       <<"e","f"," ","a","b">> >>

\* transcripts of the Turn messages
PageTranscripts ==
    { <<>>,
      <<"a","b"," ","c","d">>,
      <<"e","f"," ","a","b">>,
      <<"g","h">> }

ScrollModes == {"auto", "voice"}

\* fuseMatcherRef.current.findBestMatch for each script, transcript and prior
\* position, as the page calls it
PagePositions == -1..4

PageFindBestMatch ==
    [s \in 1..Len(PageScripts) |->
        [transcript \in PageTranscripts |->
            [currentPosition \in PagePositions |->
                findBestMatch(FuseTextMatcher(PageScripts[s]), transcript,
                              currentPosition)]]]

SeqRange(q) == {q[k] : k \in 1..Len(q)}

NoPageCall == [pc |-> "none", currentWordIndex |-> -1]

\* a socket with its audio pipeline; currentWordIndex is voiceState.currentWordIndex
\* of the render whose handlers the socket holds; stopped is history: a stop or
\* reset has run since the socket was made
NoPageSocket ==
    [readyState |-> "none", audio |-> FALSE, currentWordIndex |-> -1, stopped |-> FALSE]

PageInit ==
    /\ script = 1
    /\ scrollMode = "auto"
    /\ voiceState = [isListening |-> FALSE, isConnected |-> FALSE, spokenWords |-> {},
                     currentWordIndex |-> -1, nextWordIndex |-> -1,
                     socket |-> 0, audioContext |-> 0]
    /\ lastTranscriptRef = <<>>
    /\ debounceTimeoutRef = 0
    /\ timers = {}
    /\ pageCalls = [i \in 1..MaxPageStarts |-> NoPageCall]
    /\ pageSockets = [i \in 1..MaxPageStarts |-> NoPageSocket]
    /\ mounted = TRUE
    /\ timerEvent = "none"

pageHighlight ==
    <<voiceState.currentWordIndex, voiceState.nextWordIndex, voiceState.spokenWords>>

\* clearTimeout(id)
ClearTimeout(pending, id) == {t \in pending : t.id # id}

\* setTimeout returns an id no pending timer and no reference holds
NewTimerId(pending, ref) ==
    CHOOSE id \in 1..(Cardinality(pending) + 2) :
        id # ref /\ \A t \in pending : t.id # id

\* a slot whose socket is closed and whose audio pipeline is closed is free
Released(sockets) ==
    [j \in DOMAIN sockets |->
        IF sockets[j].readyState = "none" /\ ~sockets[j].audio
        THEN NoPageSocket ELSE sockets[j]]

\* stopVoiceListening: the timers, the reference, the sockets and voiceState it
\* leaves; ok is FALSE when prev.socket.send throws in the state updater, the
\* socket still connecting, after the audio pipeline was closed
stopVoiceListening(prev, pending, ref, sockets) ==
    LET throws == prev.socket # 0 /\ sockets[prev.socket].readyState = "CONNECTING"
        closed == [j \in DOMAIN sockets |->
                     [sockets[j] EXCEPT
                        !.audio = @ /\ j # prev.audioContext,
                        !.readyState = IF j = prev.socket /\ ~throws THEN "none" ELSE @,
                        !.stopped = TRUE]]
    IN  [timers |-> IF ref # 0 THEN ClearTimeout(pending, ref) ELSE pending,
         debounceTimeoutRef |-> 0,
         pageSockets |-> Released(closed),
         voiceState |-> IF throws THEN prev
                        ELSE [prev EXCEPT !.isListening = FALSE, !.isConnected = FALSE,
                                          !.socket = 0, !.audioContext = 0],
         ok |-> ~throws]

\* handleStop and the mode effect outside voice mode close nothing; history
\* records that the sockets have seen a stop
MarkStopped(sockets) ==
    Released([j \in DOMAIN sockets |-> [sockets[j] EXCEPT !.stopped = TRUE]])

\* a changed-text branch that sets the new timeout and clears none
ScheduleWithoutClear(pending, ref, timer) ==
    pending \cup {timer}

\* handleTranscriptionUpdate, the changed-text branch: the previous timeout is
\* cleared and the new one is set
ScheduleAlignment(pending, ref, timer) ==
    (IF ref # 0 THEN ClearTimeout(pending, ref) ELSE pending) \cup {timer}

\* an endOfTurn branch that clears no timeout
EndOfTurnKeep(pending, ref) ==
    pending

\* handleTranscriptionUpdate, the endOfTurn branch: the timeout the reference
\* holds is cleared
EndOfTurnCancel(pending, ref) ==
    IF ref # 0 THEN ClearTimeout(pending, ref) ELSE pending

\* handleStart in voice mode, up to the first await of startVoiceListening;
\* the call keeps voiceState of the render it was made in
handleStart(i) ==
    /\ mounted
    /\ scrollMode = "voice"
    /\ pageCalls[i].pc = "none"
    /\ \A k \in 1..(i - 1) : pageCalls[k].pc # "none"
    /\ pageCalls' = [pageCalls EXCEPT ![i] =
                        [pc |-> "token", currentWordIndex |-> voiceState.currentWordIndex]]
    /\ timerEvent' = "none"
    /\ UNCHANGED <<script, scrollMode, voiceState, lastTranscriptRef,
                   debounceTimeoutRef, timers, pageSockets, mounted>>
    /\ UNCHANGED <<hookVars, pureVars>>

\* getAssemblyAIToken resolves; getUserMedia is awaited next
TokenFetched(i) ==
    /\ mounted
    /\ pageCalls[i].pc = "token"
    /\ pageCalls' = [pageCalls EXCEPT ![i].pc = "media"]
    /\ timerEvent' = "none"
    /\ UNCHANGED <<script, scrollMode, voiceState, lastTranscriptRef,
                   debounceTimeoutRef, timers, pageSockets, mounted>>
    /\ UNCHANGED <<hookVars, pureVars>>

\* either await rejects: the catch block
StartVoiceFails(i) ==
    /\ mounted
    /\ pageCalls[i].pc \in {"token", "media"}
    /\ pageCalls' = [pageCalls EXCEPT ![i] = NoPageCall]
    /\ timerEvent' = "none"
    /\ UNCHANGED <<script, scrollMode, voiceState, lastTranscriptRef,
                   debounceTimeoutRef, timers, pageSockets, mounted>>
    /\ UNCHANGED <<hookVars, pureVars>>

\* startVoiceListening after getUserMedia: the socket and the audio pipeline
\* are made, the handlers are set and voiceState takes them
startVoiceListening(i) ==
    /\ mounted
    /\ pageCalls[i].pc = "media"
    /\ \E j \in DOMAIN pageSockets :
        /\ pageSockets[j] = NoPageSocket
        /\ \A k \in 1..(j - 1) : pageSockets[k] # NoPageSocket
        /\ pageSockets' = [pageSockets EXCEPT ![j] =
                              [readyState |-> "CONNECTING", audio |-> TRUE,
                               currentWordIndex |-> pageCalls[i].currentWordIndex,
                               stopped |-> FALSE]]
        /\ voiceState' = [voiceState EXCEPT !.isListening = TRUE,
                                            !.socket = j, !.audioContext = j]
    /\ pageCalls' = [pageCalls EXCEPT ![i] = NoPageCall]
    /\ timerEvent' = "none"
    /\ UNCHANGED <<script, scrollMode, lastTranscriptRef, debounceTimeoutRef,
                   timers, mounted>>
    /\ UNCHANGED <<hookVars, pureVars>>

\* socket.onopen
PageSocketOpen(j) ==
    /\ mounted
    /\ pageSockets[j].readyState = "CONNECTING"
    /\ pageSockets' = [pageSockets EXCEPT ![j].readyState = "OPEN"]
    /\ voiceState' = [voiceState EXCEPT !.isConnected = TRUE]
    /\ timerEvent' = "none"
    /\ UNCHANGED <<script, scrollMode, lastTranscriptRef, debounceTimeoutRef,
                   timers, pageCalls, mounted>>
    /\ UNCHANGED <<hookVars, pureVars>>

\* socket.onmessage with a Turn message: handleTranscriptionUpdate
handleTranscriptionUpdate(j, transcript, endOfTurn) ==
    /\ mounted
    /\ pageSockets[j].readyState = "OPEN"
    /\ LET changed == Trim(transcript) # <<>> /\ transcript # lastTranscriptRef
           timer == [id |-> NewTimerId(timers, debounceTimeoutRef),
                     transcript |-> transcript,
                     currentPosition |-> pageSockets[j].currentWordIndex,
                     socket |-> j]
           scheduled == IF changed
                        THEN ScheduleAlignment(timers, debounceTimeoutRef, timer)
                        ELSE timers
           ref == IF changed THEN timer.id ELSE debounceTimeoutRef
       IN  /\ lastTranscriptRef' = IF changed THEN transcript ELSE lastTranscriptRef
           /\ timers' = IF endOfTurn THEN EndOfTurnCancel(scheduled, ref) ELSE scheduled
           /\ debounceTimeoutRef' = IF endOfTurn THEN 0 ELSE ref
           /\ timerEvent' = IF endOfTurn
                            THEN (IF timers # {} THEN "cancelled" ELSE "final")
                            ELSE IF ~changed THEN "none"
                            ELSE IF timers # {} THEN "superseded" ELSE "scheduled"
    /\ UNCHANGED <<script, scrollMode, voiceState, pageCalls, pageSockets, mounted>>
    /\ UNCHANGED <<hookVars, pureVars>>

\* the debounce delay of a pending timer has passed: its callback runs
TimerFires(t) ==
    /\ mounted
    /\ t \in timers
    /\ timers' = timers \ {t}
    /\ LET matchResult == PageFindBestMatch[script][t.transcript][t.currentPosition]
       IN  voiceState' =
               IF matchResult.index # -1
               THEN [voiceState EXCEPT
                        !.currentWordIndex = matchResult.index,
                        !.nextWordIndex = matchResult.nextWordIndex,
                        !.spokenWords = SeqRange(matchResult.spokenWordIndices)]
               ELSE voiceState
    /\ timerEvent' = "fired"
    /\ UNCHANGED <<script, scrollMode, lastTranscriptRef, debounceTimeoutRef,
                   pageCalls, pageSockets, mounted>>
    /\ UNCHANGED <<hookVars, pureVars>>

\* handlePause in voice mode
handlePause ==
    /\ mounted
    /\ scrollMode = "voice"
    /\ LET r == stopVoiceListening(voiceState, timers, debounceTimeoutRef, pageSockets)
       IN  /\ timers' = r.timers
           /\ debounceTimeoutRef' = r.debounceTimeoutRef
           /\ pageSockets' = r.pageSockets
           /\ voiceState' = r.voiceState
           /\ mounted' = r.ok
    /\ timerEvent' = "stopped"
    /\ UNCHANGED <<script, scrollMode, lastTranscriptRef, pageCalls>>
    /\ UNCHANGED <<hookVars, pureVars>>

\* handleStop: stopVoiceListening in voice mode only, then the highlight and
\* lastTranscriptRef are reset
handleStop ==
    /\ mounted
    /\ LET r == IF scrollMode = "voice"
                THEN stopVoiceListening(voiceState, timers, debounceTimeoutRef, pageSockets)
                ELSE [timers |-> timers,
                      debounceTimeoutRef |-> debounceTimeoutRef,
                      pageSockets |-> MarkStopped(pageSockets),
                      voiceState |-> voiceState,
                      ok |-> TRUE]
       IN  /\ timers' = r.timers
           /\ debounceTimeoutRef' = r.debounceTimeoutRef
           /\ pageSockets' = r.pageSockets
           /\ voiceState' = IF r.ok
                            THEN [r.voiceState EXCEPT !.spokenWords = {},
                                                      !.currentWordIndex = -1,
                                                      !.nextWordIndex = -1]
                            ELSE r.voiceState
           /\ mounted' = r.ok
    /\ lastTranscriptRef' = <<>>
    /\ timerEvent' = "stopped"
    /\ UNCHANGED <<script, scrollMode, pageCalls>>
    /\ UNCHANGED <<hookVars, pureVars>>

\* the Select sets settings.scrollMode; the mode effect stops a session that
\* is listening when the new mode is not voice
setScrollMode(mode) ==
    /\ mounted
    /\ mode # scrollMode
    /\ scrollMode' = mode
    /\ LET stops == mode # "voice" /\ voiceState.isListening
           r == IF stops
                THEN stopVoiceListening(voiceState, timers, debounceTimeoutRef, pageSockets)
                ELSE [timers |-> timers,
                      debounceTimeoutRef |-> debounceTimeoutRef,
                      pageSockets |-> pageSockets,
                      voiceState |-> voiceState,
                      ok |-> TRUE]
       IN  /\ timers' = r.timers
           /\ debounceTimeoutRef' = r.debounceTimeoutRef
           /\ pageSockets' = r.pageSockets
           /\ voiceState' = r.voiceState
           /\ mounted' = r.ok
           /\ timerEvent' = IF stops THEN "stopped" ELSE "none"
    /\ UNCHANGED <<script, lastTranscriptRef, pageCalls>>
    /\ UNCHANGED <<hookVars, pureVars>>

\* the textarea sets the script; the script effect builds the matcher
setScript(s) ==
    /\ mounted
    /\ s # script
    /\ script' = s
    /\ timerEvent' = "none"
    /\ UNCHANGED <<scrollMode, voiceState, lastTranscriptRef, debounceTimeoutRef,
                   timers, pageCalls, pageSockets, mounted>>
    /\ UNCHANGED <<hookVars, pureVars>>

\* socket.onerror: the socket has failed; stopVoiceListening, then onclose
PageSocketError(j) ==
    /\ mounted
    /\ pageSockets[j].readyState \in {"CONNECTING", "OPEN"}
    /\ LET failed == [pageSockets EXCEPT ![j].readyState = "none"]
           r == stopVoiceListening(voiceState, timers, debounceTimeoutRef, failed)
       IN  /\ timers' = r.timers
           /\ debounceTimeoutRef' = r.debounceTimeoutRef
           /\ pageSockets' = r.pageSockets
           /\ voiceState' = r.voiceState
           /\ mounted' = r.ok
    /\ timerEvent' = "stopped"
    /\ UNCHANGED <<script, scrollMode, lastTranscriptRef, pageCalls>>
    /\ UNCHANGED <<hookVars, pureVars>>

\* socket.onclose of a socket the server closes
PageSocketClose(j) ==
    /\ mounted
    /\ pageSockets[j].readyState \in {"CONNECTING", "OPEN"}
    /\ pageSockets' = Released([pageSockets EXCEPT ![j].readyState = "none"])
    /\ voiceState' = [voiceState EXCEPT !.isConnected = FALSE]
    /\ timerEvent' = "none"
    /\ UNCHANGED <<script, scrollMode, lastTranscriptRef, debounceTimeoutRef,
                   timers, pageCalls, mounted>>
    /\ UNCHANGED <<hookVars, pureVars>>

PageNext ==
    \/ \E i \in 1..MaxPageStarts : handleStart(i)
    \/ \E i \in 1..MaxPageStarts : TokenFetched(i)
    \/ \E i \in 1..MaxPageStarts : StartVoiceFails(i)
    \/ \E i \in 1..MaxPageStarts : startVoiceListening(i)
    \/ \E j \in 1..MaxPageStarts : PageSocketOpen(j)
    \/ \E j \in 1..MaxPageStarts, transcript \in PageTranscripts, endOfTurn \in BOOLEAN :
           handleTranscriptionUpdate(j, transcript, endOfTurn)
    \/ \E t \in timers : TimerFires(t)
    \/ handlePause
    \/ handleStop
    \/ \E mode \in ScrollModes : setScrollMode(mode)
    \/ \E s \in 1..Len(PageScripts) : setScript(s)
    \/ \E j \in 1..MaxPageStarts : PageSocketError(j)
    \/ \E j \in 1..MaxPageStarts : PageSocketClose(j)

\* ------------------------------------------------- calls of FuseTextMatcher

\* script texts a matcher is constructed from: a script of 25 words in 23
\* sentences, a script with a repeated phrase, scripts with punctuation
\* inside and between tokens, the empty and the blank script
EngineScripts ==
    << <<"a","b"," ","c","d","."," ","z","."," ","z","."," ","z",
          "."," ","z","."," ","z","."," ","z","."," ","z","."," ",
          "z","."," ","z","."," ","z","."," ","z","."," ","z",".",
          " ","z","."," ","z","."," ","z","."," ","z","."," ","z",
          "."," ","z","."," ","z","."," ","z","."," ","z","."," ",
          "e","f"," ","g","h">>,
       <<"a","b"," ","c","d"," ","a","b"," ","c","d","."," ","a",
          "b"," ","c","d">>,
       <<"p","i"," ","i","s"," ","3",".","5"," ","o","k","."," ",
          "n","e","x","t"," ","u","p">>,
       <<"e",".","g","."," ","a","b"," ",".",".","."," ","c","d">>,
       <<>>,
       <<" ">> >>

\* transcripts passed to findBestMatch
EngineTranscripts ==
    { <<>>,
      <<" ">>,
      <<"a","b"," ","c","d">>,
      <<"a","b"," ","x","y">>,
      <<"e","f"," ","g","h">>,
      <<"e","f"," ","g","x">>,
      <<"e","f"," ","x","y">>,
      <<"n","e","x","t"," ","u","p">>,
      <<"c","d">> }

\* prior positions passed to findBestMatch
EnginePositions == {-1, 0, 2, 3, 22, 24}

\* the matchers of the scripts
EngineMatchers == [s \in 1..Len(EngineScripts) |-> FuseTextMatcher(EngineScripts[s])]

\* bestMatch of findBestMatch as it stands before the jump guard
bestMatchBeforeGuard(matcher, transcript, currentPosition) ==
    IF Trim(transcript) = <<>> \/ Len(matcher.words) = 0 THEN NullMatch
    ELSE LET sentenceResults == SentenceSearch(matcher.sentences, transcript)
         IN  IF Len(sentenceResults) = 0 THEN NullMatch
             ELSE SentenceLoop(matcher, transcript, currentPosition,
                               sentenceResults, 1, NullMatch)

\* a matcher is constructed and findBestMatch is about to be called
EngineInit ==
    \E s \in 1..Len(EngineScripts), transcript \in EngineTranscripts,
       currentPosition \in EnginePositions :
        engine = [stage |-> "called", script |-> s, matcher |-> EngineMatchers[s],
                  transcript |-> transcript, currentPosition |-> currentPosition]

\* findBestMatch returns
EngineFindBestMatch ==
    /\ engine.stage = "called"
    /\ LET matcher == engine.matcher
       IN  engine' = [stage |-> "returned", script |-> engine.script,
                      matcher |-> matcher,
                      transcript |-> engine.transcript,
                      currentPosition |-> engine.currentPosition,
                      bestMatch |-> bestMatchBeforeGuard(matcher, engine.transcript,
                                                         engine.currentPosition),
                      result |-> findBestMatch(matcher, engine.transcript,
                                               engine.currentPosition)]
    /\ UNCHANGED <<hookVars, pageVars, fuzz>>

EngineNext == EngineFindBestMatch

\* ------------------------------------------------------------ fuzzy_matching
\* Strings are sequences of characters; a value passed to a scorer is null,
\* undefined or a string. Scores that the code holds as fractions before
\* Math.round are held as integers over a common denominator.

\* Math.round(num / den) for num >= 0 and den > 0: halves round up
RoundDiv(num, den) == (2 * num + den) \div (2 * den)

\* the characters of the model in the order of their UTF-16 code units
FuzzCharOrder == <<"\n", " ", "!", "1", "A", "B", "C", "a", "b", "c", "é">>

CharCode(c) == CHOOSE i \in 1..Len(FuzzCharOrder) : FuzzCharOrder[i] = c

\* the characters /[^\x00-\x7F]/ matches
NonAscii == {"é"}

\* the characters /[a-z0-9\s]/ matches
KeptChars == {"a", "b", "c", "1"} \cup Whitespace

\* s < t as JavaScript compares strings
RECURSIVE StringLess(_, _)
StringLess(s, t) ==
    IF t = <<>> THEN FALSE
    ELSE IF s = <<>> THEN TRUE
    ELSE IF Head(s) = Head(t) THEN StringLess(Tail(s), Tail(t))
    ELSE CharCode(Head(s)) < CharCode(Head(t))

\* Array.prototype.sort() of a list of strings without duplicates of order:
\* equal strings are the same string, so the order of equals does not show
RECURSIVE SortStrings(_)
SortStrings(list) ==
    IF list = <<>> THEN <<>>
    ELSE LET least == CHOOSE k \in 1..Len(list) :
                          \A o \in 1..Len(list) :
                              ~StringLess(list[o], list[k]) /\ (list[o] = list[k] => k <= o)
             rest == [j \in 1..(Len(list) - 1) |-> IF j < least THEN list[j] ELSE list[j + 1]]
         IN  <<list[least]>> \o SortStrings(rest)

\* [...set].sort() of a Set of strings
RECURSIVE SortSet(_)
SortSet(set) ==
    IF set = {} THEN <<>>
    ELSE LET least == CHOOSE t \in set : \A o \in set : ~StringLess(o, t)
         IN  <<least>> \o SortSet(set \ {least})

\* str.replace(/\s+/g, ' ')
RECURSIVE CollapseWhitespace(_)
CollapseWhitespace(s) ==
    IF s = <<>> THEN <<>>
    ELSE IF Head(s) \in Whitespace
         THEN <<" ">> \o CollapseWhitespace(TrimStart(s))
         ELSE <<Head(s)>> \o CollapseWhitespace(Tail(s))

\* a full_process that leaves runs of whitespace as they are
full_processNoCollapse(s, force_ascii) ==
    Trim([i \in 1..Len(s) |-> IF ToLowerCase(s)[i] \in KeptChars THEN ToLowerCase(s)[i] ELSE " "])

\* full_process of a string
full_process(s, force_ascii) ==
    LET ascii == IF force_ascii THEN RemoveChars(s, NonAscii) ELSE s
        lower == ToLowerCase(ascii)
        spaced == [i \in 1..Len(lower) |-> IF lower[i] \in KeptChars THEN lower[i] ELSE " "]
    IN  Trim(CollapseWhitespace(Trim(spaced)))

\* a row that only adds one to the row above it
LevenshteinRowAbovePlusOne(v0, c, s2, v1) == [j \in 1..Len(v0) |-> v0[j] + 1]

\* one row v1 of levenshtein from the row v0 above it
RECURSIVE LevenshteinRow(_, _, _, _)
LevenshteinRow(v0, c, s2, v1) ==
    LET j == Len(v1) IN
    IF j > Len(s2) THEN v1
    ELSE LET cost == IF c = s2[j] THEN 0 ELSE 1
         IN  LevenshteinRow(v0, c, s2,
                            Append(v1, Min(v1[j] + 1, Min(v0[j + 1] + 1, v0[j] + cost))))

RECURSIVE LevenshteinRows(_, _, _, _)
LevenshteinRows(s1, s2, i, v0) ==
    IF i > Len(s1) THEN v0
    ELSE LevenshteinRows(s1, s2, i + 1, LevenshteinRow(v0, s1[i], s2, <<i>>))

\* a distance that counts the characters of s1 alone
levenshteinOfFirst(s1, s2) == IF s1 = s2 THEN 0 ELSE Len(s1)

levenshtein(s1, s2) ==
    IF s1 = s2 THEN 0
    ELSE IF Len(s1) = 0 THEN Len(s2)
    ELSE IF Len(s2) = 0 THEN Len(s1)
    ELSE LevenshteinRows(s1, s2, 1, [j \in 1..(Len(s2) + 1) |-> j - 1])[Len(s2) + 1]

\* s.split(' ').filter(t => t)
Tokens(s) == NonEmpty(SplitChar(s, {" "}))

sort_tokens(s) == IF s = <<>> THEN <<>> ELSE Join(SortStrings(Tokens(s)))

\* the values a caller may pass for a string
Null == [type |-> "null"]

Undefined == [type |-> "undefined"]

Str(s) == [type |-> "string", chars |-> s]

\* full_process of a value: the empty string for null and undefined
FullProcess(v, force_ascii) ==
    IF v \in {Null, Undefined} THEN <<>> ELSE full_process(v.chars, force_ascii)

\* a wrapper that scores two missing values as equal
handle_nulls_equal(s1, s2, score) ==
    IF s1 \in {Null, Undefined} /\ s2 \in {Null, Undefined} THEN 100
    ELSE IF s1 \in {Null, Undefined} \/ s2 \in {Null, Undefined} THEN 0
    ELSE score

\* _handle_nulls: 0 when either value is null or undefined, else the score of
\* the wrapped scorer
handle_nulls(s1, s2, score) ==
    IF s1 \in {Null, Undefined} \/ s2 \in {Null, Undefined} THEN 0 ELSE score

\* _fuzz.ratio on strings
RatioOf(s1, s2) ==
    LET len1 == Len(s1)
        len2 == Len(s2)
    IN  IF len1 = 0 /\ len2 = 0 THEN 100
        ELSE IF len1 = 0 \/ len2 = 0 THEN 0
        ELSE RoundDiv((len1 + len2 - levenshtein(s1, s2)) * 100, len1 + len2)

\* the loop of _fuzz.partial_ratio
RECURSIVE PartialLoop(_, _, _, _)
PartialLoop(shorter, longer, i, bestScore) ==
    IF i > Len(longer) - Len(shorter) THEN bestScore
    ELSE LET sub == SubSeq(longer, i + 1, i + Len(shorter))
             score == RatioOf(shorter, sub)
         IN  PartialLoop(shorter, longer, i + 1, IF score > bestScore THEN score ELSE bestScore)

\* _fuzz.partial_ratio on strings
PartialRatioOf(s1, s2) ==
    IF Len(s1) = 0 \/ Len(s2) = 0 THEN 0
    ELSE IF Len(s1) < Len(s2) THEN PartialLoop(s1, s2, 0, 0)
    ELSE PartialLoop(s2, s1, 0, 0)

\* _fuzz.token_sort_ratio on strings
TokenSortRatioOf(s1, s2, options) ==
    LET p1 == IF options.full_process THEN full_process(s1, options.force_ascii) ELSE s1
        p2 == IF options.full_process THEN full_process(s2, options.force_ascii) ELSE s2
    IN  RatioOf(sort_tokens(p1), sort_tokens(p2))

\* the token set of a processed string
TokenSet(p) == {Tokens(p)[k] : k \in 1..Len(Tokens(p))}

\* _fuzz.token_set_ratio on strings
TokenSetRatioOf(s1, s2, options) ==
    LET p1 == IF options.full_process THEN full_process(s1, options.force_ascii) ELSE s1
        p2 == IF options.full_process THEN full_process(s2, options.force_ascii) ELSE s2
        tokens1 == TokenSet(p1)
        tokens2 == TokenSet(p2)
        intersection == {x \in tokens1 : x \in tokens2}
        diff1_2 == {x \in tokens1 : x \notin tokens2}
        diff2_1 == {x \in tokens2 : x \notin tokens2}
        sorted_sect == Trim(Join(SortSet(intersection)))
        sorted_diff1 == Trim(Join(SortSet(diff1_2)))
        sorted_diff2 == Trim(Join(SortSet(diff2_1)))
        combined1 == Trim(sorted_sect \o <<" ">> \o sorted_diff1)
        combined2 == Trim(sorted_sect \o <<" ">> \o sorted_diff2)
    IN  IF tokens1 = {} /\ tokens2 = {} THEN 100
        ELSE IF tokens1 = {} \/ tokens2 = {} THEN 0
        ELSE IF Len(sorted_sect) = 0 THEN 0
        ELSE Max(RatioOf(sorted_sect, combined1),
                 Max(RatioOf(sorted_sect, combined2), RatioOf(combined1, combined2)))

\* fuzz.partial_token_sort_ratio on strings
PartialTokenSortRatioOf(s1, s2, options) ==
    LET p1 == IF options.full_process THEN full_process(s1, options.force_ascii) ELSE s1
        p2 == IF options.full_process THEN full_process(s2, options.force_ascii) ELSE s2
    IN  PartialRatioOf(sort_tokens(p1), sort_tokens(p2))

\* fuzz.QRatio on strings
QRatioOf(s1, s2, options) ==
    LET p1 == IF options.full_process THEN full_process(s1, options.force_ascii) ELSE s1
        p2 == IF options.full_process THEN full_process(s2, options.force_ascii) ELSE s2
    IN  RatioOf(p1, p2)

\* the options of the calls WRatio makes: { full_process: false }
Unprocessed == [force_ascii |-> TRUE, full_process |-> FALSE]

\* a WRatio that takes the partial scorers in whatever the lengths
WRatioOfAlwaysPartial(s1, s2, options) ==
    LET p1 == IF options.full_process THEN full_process(s1, options.force_ascii) ELSE s1
        p2 == IF options.full_process THEN full_process(s2, options.force_ascii) ELSE s2
        scores == {1000 * RatioOf(p1, p2),
                   950 * TokenSortRatioOf(p1, p2, Unprocessed),
                   950 * TokenSetRatioOf(p1, p2, Unprocessed),
                   900 * PartialRatioOf(p1, p2),
                   855 * PartialTokenSortRatioOf(p1, p2, Unprocessed),
                   855 * TokenSetRatioOf(p1, p2, Unprocessed)}
    IN  IF Len(p1) = 0 \/ Len(p2) = 0 THEN 0
        ELSE RoundDiv(CHOOSE x \in scores : \A y \in scores : y <= x, 1000)

\* fuzz.WRatio on strings; the scores are held in thousandths
WRatioOf(s1, s2, options) ==
    LET p1 == IF options.full_process THEN full_process(s1, options.force_ascii) ELSE s1
        p2 == IF options.full_process THEN full_process(s2, options.force_ascii) ELSE s2
        long == 2 * Max(Len(p1), Len(p2)) > 3 * Min(Len(p1), Len(p2))
        base == {1000 * RatioOf(p1, p2),
                 950 * TokenSortRatioOf(p1, p2, Unprocessed),
                 950 * TokenSetRatioOf(p1, p2, Unprocessed)}
        partial == {900 * PartialRatioOf(p1, p2),
                    855 * PartialTokenSortRatioOf(p1, p2, Unprocessed),
                    855 * TokenSetRatioOf(p1, p2, Unprocessed)}
        scores == IF long THEN base \cup partial ELSE base
    IN  IF Len(p1) = 0 \/ Len(p2) = 0 THEN 0
        ELSE RoundDiv(CHOOSE x \in scores : \A y \in scores : y <= x, 1000)

\* the public scorers of fuzz, on values
ratio(s1, s2) == handle_nulls(s1, s2, RatioOf(s1.chars, s2.chars))

partial_ratio(s1, s2) == handle_nulls(s1, s2, PartialRatioOf(s1.chars, s2.chars))

token_sort_ratio(s1, s2, options) == handle_nulls(s1, s2, TokenSortRatioOf(s1.chars, s2.chars, options))

token_set_ratio(s1, s2, options) == handle_nulls(s1, s2, TokenSetRatioOf(s1.chars, s2.chars, options))

partial_token_sort_ratio(s1, s2, options) == handle_nulls(s1, s2, PartialTokenSortRatioOf(s1.chars, s2.chars, options))

partial_token_set_ratio(s1, s2, options) == token_set_ratio(s1, s2, options)

QRatio(s1, s2, options) == handle_nulls(s1, s2, QRatioOf(s1.chars, s2.chars, options))

WRatio(s1, s2, options) == handle_nulls(s1, s2, WRatioOf(s1.chars, s2.chars, options))

UWRatio(s1, s2, options) == WRatio(s1, s2, [options EXCEPT !.force_ascii = FALSE])

UQRatio(s1, s2, options) == QRatio(s1, s2, [options EXCEPT !.force_ascii = FALSE])

\* ---------------------------------------------------------- calls of fuzz

\* the longest of the strings drawn from FuzzAlphabet
MaxFuzzLen == 2

FuzzAlphabet == {"a", "b", " "}

\* further strings: upper case, punctuation, a character outside ASCII, a
\* digit, repeated and reordered tokens, longer strings
FuzzExtra ==
    { <<"A", "!">>, <<"a", "é", "b">>, <<"!", "!">>, <<"b", "1">>,
      <<"a", "b", " ", "b", "a">>, <<"b", "a", " ", "a", "b">>,
      <<"a", " ", "a", " ", "b">>, <<"a", "b", "c">>, <<"a", "b", " ", "c">>,
      <<"c", " ", "a", "b", " ", "a", "b", "c">> }

FuzzStrings ==
    UNION { [1..n -> FuzzAlphabet] : n \in 0..MaxFuzzLen } \cup FuzzExtra

FuzzValues == {Null, Undefined} \cup { Str(s) : s \in FuzzStrings }

\* the options of a call, each with its defaults filled in: none,
\* { force_ascii: false }, { full_process: false }
FuzzOptions ==
    { [force_ascii |-> TRUE, full_process |-> TRUE],
      [force_ascii |-> FALSE, full_process |-> TRUE],
      [force_ascii |-> TRUE, full_process |-> FALSE] }

\* a scorer is about to be called
FuzzInit ==
    \E s1 \in FuzzValues, s2 \in FuzzValues, options \in FuzzOptions :
        fuzz = [stage |-> "called", s1 |-> s1, s2 |-> s2, options |-> options]

\* the call of the state once the scorer has returned result
FuzzReturned(scorer, result) ==
    [stage |-> "returned", scorer |-> scorer, s1 |-> fuzz.s1, s2 |-> fuzz.s2,
     options |-> fuzz.options, result |-> result]

CallRatio ==
    /\ fuzz.stage = "called"
    /\ fuzz' = FuzzReturned("ratio", ratio(fuzz.s1, fuzz.s2))
    /\ UNCHANGED <<hookVars, pageVars, engine>>

CallPartialRatio ==
    /\ fuzz.stage = "called"
    /\ fuzz' = FuzzReturned("partial_ratio", partial_ratio(fuzz.s1, fuzz.s2))
    /\ UNCHANGED <<hookVars, pageVars, engine>>

CallTokenSortRatio ==
    /\ fuzz.stage = "called"
    /\ fuzz' = FuzzReturned("token_sort_ratio", token_sort_ratio(fuzz.s1, fuzz.s2, fuzz.options))
    /\ UNCHANGED <<hookVars, pageVars, engine>>

CallTokenSetRatio ==
    /\ fuzz.stage = "called"
    /\ fuzz' = FuzzReturned("token_set_ratio", token_set_ratio(fuzz.s1, fuzz.s2, fuzz.options))
    /\ UNCHANGED <<hookVars, pageVars, engine>>

CallPartialTokenSortRatio ==
    /\ fuzz.stage = "called"
    /\ fuzz' = FuzzReturned("partial_token_sort_ratio", partial_token_sort_ratio(fuzz.s1, fuzz.s2, fuzz.options))
    /\ UNCHANGED <<hookVars, pageVars, engine>>

CallPartialTokenSetRatio ==
    /\ fuzz.stage = "called"
    /\ fuzz' = FuzzReturned("partial_token_set_ratio", partial_token_set_ratio(fuzz.s1, fuzz.s2, fuzz.options))
    /\ UNCHANGED <<hookVars, pageVars, engine>>

CallQRatio ==
    /\ fuzz.stage = "called"
    /\ fuzz' = FuzzReturned("QRatio", QRatio(fuzz.s1, fuzz.s2, fuzz.options))
    /\ UNCHANGED <<hookVars, pageVars, engine>>

CallWRatio ==
    /\ fuzz.stage = "called"
    /\ fuzz' = FuzzReturned("WRatio", WRatio(fuzz.s1, fuzz.s2, fuzz.options))
    /\ UNCHANGED <<hookVars, pageVars, engine>>

CallUQRatio ==
    /\ fuzz.stage = "called"
    /\ fuzz' = FuzzReturned("UQRatio", UQRatio(fuzz.s1, fuzz.s2, fuzz.options))
    /\ UNCHANGED <<hookVars, pageVars, engine>>

CallUWRatio ==
    /\ fuzz.stage = "called"
    /\ fuzz' = FuzzReturned("UWRatio", UWRatio(fuzz.s1, fuzz.s2, fuzz.options))
    /\ UNCHANGED <<hookVars, pageVars, engine>>

FuzzNext ==
    \/ CallRatio
    \/ CallPartialRatio
    \/ CallTokenSortRatio
    \/ CallTokenSetRatio
    \/ CallPartialTokenSortRatio
    \/ CallPartialTokenSetRatio
    \/ CallQRatio
    \/ CallWRatio
    \/ CallUQRatio
    \/ CallUWRatio

\* ------------------------------------------------------------------ process
\* A result of extractBests is a list of [choice, score] pairs; choices are
\* given as arrays. console.warn leaves no trace in the state.

\* the default of limit in extractBests
DefaultLimit == 5

Num(n) == [type |-> "number", value |-> n]

\* full_process as a processor: of a value, with force_ascii left at false
Processor(v) == FullProcess(v, FALSE)

\* scorer(processed_query, processed_choice, { full_process: false })
ScoreWith(scorer, processed_query, processed_choice) ==
    CASE scorer = "WRatio" -> WRatioOf(processed_query, processed_choice, Unprocessed)
      [] scorer = "token_set_ratio" ->
             TokenSetRatioOf(processed_query, processed_choice, Unprocessed)
      [] scorer = "ratio" -> RatioOf(processed_query, processed_choice)

\* the loop of extractBests over the choices: the results pushed, in order
ExtractLoop(processed_query, choices, scorer, score_cutoff) ==
    LET scored == [k \in 1..Len(choices) |->
                      [choice |-> choices[k],
                       score |-> IF choices[k] \in {Null, Undefined} THEN 0
                                 ELSE ScoreWith(scorer, processed_query,
                                                Processor(choices[k]))]]
        Pushed(r) == r.choice \notin {Null, Undefined} /\ r.score >= score_cutoff
    IN  SelectSeq(scored, Pushed)

\* results.sort((a, b) => b[1] - a[1]): by falling score, equals in their order
SortByScore(results) ==
    LET Before(o, k) == \/ results[o].score > results[k].score
                        \/ results[o].score = results[k].score /\ o < k
        Place(k) == 1 + Cardinality({o \in 1..Len(results) : Before(o, k)})
    IN  [place \in 1..Len(results) |->
            results[CHOOSE k \in 1..Len(results) : Place(k) = place]]

\* limit === null ? results : results.slice(0, limit), the limit 0 or more
SliceToLimit(results, limit) ==
    IF limit = Null THEN results
    ELSE SubSeq(results, 1, Min(Len(results), limit.value))

\* an extractBests that keeps the results in the order of the choices
extractBestsUnsorted(query, choices, scorer, limit, score_cutoff) ==
    CHOOSE sliced \in
        {SliceToLimit(results, IF limit = Undefined THEN Num(DefaultLimit) ELSE limit) :
            results \in {ExtractLoop(Processor(query), choices,
                                     IF scorer = "unset" THEN "WRatio" ELSE scorer,
                                     score_cutoff)}} : TRUE

\* process.extractBests; a scorer or a limit left unset takes its default.
\* results is the array after the loop, then sorted and sliced.
extractBests(query, choices, scorer, limit, score_cutoff) ==
    CHOOSE sliced \in
        {SliceToLimit(SortByScore(results),
                      IF limit = Undefined THEN Num(DefaultLimit) ELSE limit) :
            results \in {ExtractLoop(Processor(query), choices,
                                     IF scorer = "unset" THEN "WRatio" ELSE scorer,
                                     score_cutoff)}} : TRUE

\* process.extractOne: the first result, or null
extractOne(query, choices, scorer, score_cutoff) ==
    CHOOSE one \in
        {IF Len(results) > 0 THEN results[1] ELSE Null :
            results \in {extractBests(query, choices, scorer, Num(1), score_cutoff)}} : TRUE

\* matches.sort(...)[0][0]: the longest choice and, of the longest, the first
\* by localeCompare, which on lower case letters, digits and spaces is the
\* order of the code units
Canonical(matches) ==
    LET strings == {matches[k].choice.chars : k \in 1..Len(matches)}
        longest == {s \in strings : \A o \in strings : Len(o) <= Len(s)}
    IN  CHOOSE s \in longest : \A o \in longest : ~StringLess(o, s)

\* one pass of the loop of dedupe: seen.processed is the Set, seen.clusters
\* the keys of the record in the order they were added
DedupeStep(contains_dupes, scorer, threshold, seen, item) ==
    CHOOSE next \in
        {IF item \in seen.processed \/ Len(matches) = 0 THEN seen
         ELSE [processed |-> seen.processed \cup
                                 {matches[k].choice : k \in 1..Len(matches)},
               clusters |-> IF \E k \in 1..Len(seen.clusters) :
                                   seen.clusters[k] = Str(Canonical(matches))
                            THEN seen.clusters
                            ELSE Append(seen.clusters, Str(Canonical(matches)))] :
            matches \in {extractBests(item, contains_dupes, scorer, Null, threshold)}} : TRUE

\* the loop of dedupe after the first upto items
RECURSIVE DedupeLoop(_, _, _, _)
DedupeLoop(contains_dupes, scorer, threshold, upto) ==
    IF upto = 0 THEN [processed |-> {}, clusters |-> <<>>]
    ELSE CHOOSE next \in
             {DedupeStep(contains_dupes, scorer, threshold, seen, contains_dupes[upto]) :
                 seen \in {DedupeLoop(contains_dupes, scorer, threshold, upto - 1)}} : TRUE

\* a dedupe that always returns the keys of the clusters
dedupeKeysOnly(contains_dupes, scorer, threshold) ==
    IF Len(contains_dupes) = 0 THEN <<>>
    ELSE DedupeLoop(contains_dupes,
                    IF scorer = "unset" THEN "token_set_ratio" ELSE scorer,
                    threshold, Len(contains_dupes)).clusters

\* process.dedupe; a scorer left unset is token_set_ratio
dedupe(contains_dupes, scorer, threshold) ==
    IF Len(contains_dupes) = 0 THEN <<>>
    ELSE CHOOSE returned \in
             {IF Len(deduped_list) = Len(contains_dupes) THEN contains_dupes
              ELSE deduped_list :
                 deduped_list \in
                     {DedupeLoop(contains_dupes,
                                 IF scorer = "unset" THEN "token_set_ratio" ELSE scorer,
                                 threshold, Len(contains_dupes)).clusters}} : TRUE

\* ------------------------------------------------------- calls of process

\* the lists of choices: chains of near strings, a list with a null and with
\* equal scores, a list of six strings and a null, the empty list, two unlike strings
ProcessChoices ==
    { <<Str(<<"a", "b">>), Str(<<"a", "b", "c">>), Str(<<"a", "b", "c", "c">>)>>,
      <<Str(<<"a">>), Str(<<"a", " ", "b">>), Str(<<"b", " ", "c", "c">>)>>,
      <<Str(<<"b", "a">>), Null, Str(<<"a", "b", " ", "c">>), Str(<<"a", "b">>),
        Str(<<"c", "b">>)>>,
      <<Str(<<"a", "b">>), Null, Str(<<"a", "b", "c">>), Str(<<"a", "b", " ", "c">>),
        Str(<<"b", "a">>), Str(<<"a", "b", " ", "b", "a">>), Str(<<"a", "b", "b">>)>>,
      <<>>,
      <<Str(<<"a", "b">>), Str(<<"c">>)>> }

ProcessQueries == {Str(<<"a", "b">>), Str(<<"A", "!">>), Str(<<>>), Null}

\* limit: left unset, null, or a number
ProcessLimits == {Undefined, Null, Num(0), Num(1), Num(2)}

\* score_cutoff and threshold
ProcessCutoffs == {-1, 0, 70, 100, 101}

\* scorer: left unset, or fuzz.ratio
ProcessScorers == {"unset", "ratio"}

\* a function of process is about to be called
ProcessInit ==
    \E query \in ProcessQueries, choices \in ProcessChoices, scorer \in ProcessScorers,
       limit \in ProcessLimits, score_cutoff \in ProcessCutoffs :
        fuzz = [stage |-> "called", query |-> query, choices |-> choices,
                scorer |-> scorer, limit |-> limit, score_cutoff |-> score_cutoff]

\* the call of the state once the function has returned result; no function
\* of process has a throw statement
ProcessReturned(function, result) ==
    [stage |-> "returned", function |-> function, query |-> fuzz.query,
     choices |-> fuzz.choices, scorer |-> fuzz.scorer, limit |-> fuzz.limit,
     score_cutoff |-> fuzz.score_cutoff, threw |-> FALSE, result |-> result]

CallExtractBests ==
    /\ fuzz.stage = "called"
    /\ fuzz' = ProcessReturned("extractBests",
                   extractBests(fuzz.query, fuzz.choices, fuzz.scorer, fuzz.limit,
                                fuzz.score_cutoff))
    /\ UNCHANGED <<hookVars, pageVars, engine>>

CallExtractOne ==
    /\ fuzz.stage = "called"
    /\ fuzz' = ProcessReturned("extractOne",
                   extractOne(fuzz.query, fuzz.choices, fuzz.scorer, fuzz.score_cutoff))
    /\ UNCHANGED <<hookVars, pageVars, engine>>

\* dedupe(choices, { scorer, threshold: score_cutoff })
CallDedupe ==
    /\ fuzz.stage = "called"
    /\ fuzz' = ProcessReturned("dedupe",
                   dedupe(fuzz.choices, fuzz.scorer, fuzz.score_cutoff))
    /\ UNCHANGED <<hookVars, pageVars, engine>>

ProcessNext ==
    \/ CallExtractBests
    \/ CallExtractOne
    \/ CallDedupe

\* ------------------------------ calls of full_process and levenshtein

\* further texts: blanks of both kinds at the ends and in runs, upper case,
\* punctuation, a digit and a character outside ASCII in one string
TextExtra ==
    { <<" ", "A", "!", "\n", " ", "b", "1", " ">>,
      <<"a", "\n", "b">>,
      <<"é", " ", " ", "C">>,
      <<"b", "c", "a">>, <<"c", "a", "b", "b">> }

TextValues == FuzzValues \cup { Str(s) : s \in TextExtra }

\* full_process or levenshtein is about to be called
TextInit ==
    \E s1 \in TextValues, s2 \in TextValues, force_ascii \in BOOLEAN :
        fuzz = [stage |-> "called", s1 |-> s1, s2 |-> s2, force_ascii |-> force_ascii]

\* the call of the state once the function has returned result
TextReturned(function, result) ==
    [stage |-> "returned", function |-> function, s1 |-> fuzz.s1, s2 |-> fuzz.s2,
     force_ascii |-> fuzz.force_ascii, result |-> result]

\* full_process(s1, { force_ascii })
CallFullProcess ==
    /\ fuzz.stage = "called"
    /\ fuzz' = TextReturned("full_process", FullProcess(fuzz.s1, fuzz.force_ascii))
    /\ UNCHANGED <<hookVars, pageVars, engine>>

\* levenshtein(s1, s2); its callers pass it strings
CallLevenshtein ==
    /\ fuzz.stage = "called"
    /\ fuzz.s1.type = "string" /\ fuzz.s2.type = "string"
    /\ fuzz' = TextReturned("levenshtein", levenshtein(fuzz.s1.chars, fuzz.s2.chars))
    /\ UNCHANGED <<hookVars, pageVars, engine>>

TextNext ==
    \/ CallFullProcess
    \/ CallLevenshtein

\* ---------------------------------------------------------- specifications

\* no call of a pure function is made
NoEngineCall == [stage |-> "none"]

NoFuzzCall == [stage |-> "none"]

Init == HookInit /\ PageInit /\ engine = NoEngineCall /\ fuzz = NoFuzzCall

\* the hook alone
HookSpec == Init /\ [][HookNext]_vars

\* the page alone
PageStart == Init /\ initialScript = 1

Spec == PageStart /\ [][PageNext]_vars

\* the alignment engine alone
EngineStart == HookInit /\ initialScript = 1 /\ PageInit /\ EngineInit /\ fuzz = NoFuzzCall

EngineSpec == EngineStart /\ [][EngineNext]_vars

\* calls of the fuzz scorers alone
FuzzStart == HookInit /\ initialScript = 1 /\ PageInit /\ engine = NoEngineCall /\ FuzzInit

FuzzSpec == FuzzStart /\ [][FuzzNext]_vars

\* calls of the process functions alone
ProcessStart == HookInit /\ initialScript = 1 /\ PageInit /\ engine = NoEngineCall /\ ProcessInit

ProcessSpec == ProcessStart /\ [][ProcessNext]_vars

\* calls of full_process and levenshtein alone
TextStart == HookInit /\ initialScript = 1 /\ PageInit /\ engine = NoEngineCall /\ TextInit

TextSpec == TextStart /\ [][TextNext]_vars

\* the page with room for overlapping starts: handleStart may be invoked
\* again while an earlier call is still awaiting the token or the microphone
MaxSessionStarts == 2

SessionTranscripts == { <<"g","h">> }

SessionStart ==
    /\ HookInit /\ initialScript = 1
    /\ engine = NoEngineCall /\ fuzz = NoFuzzCall
    /\ script = 1
    /\ scrollMode = "auto"
    /\ voiceState = [isListening |-> FALSE, isConnected |-> FALSE, spokenWords |-> {},
                     currentWordIndex |-> -1, nextWordIndex |-> -1,
                     socket |-> 0, audioContext |-> 0]
    /\ lastTranscriptRef = <<>>
    /\ debounceTimeoutRef = 0
    /\ timers = {}
    /\ pageCalls = [i \in 1..MaxSessionStarts |-> NoPageCall]
    /\ pageSockets = [i \in 1..MaxSessionStarts |-> NoPageSocket]
    /\ mounted = TRUE
    /\ timerEvent = "none"

SessionNext ==
    \/ \E mode \in ScrollModes : setScrollMode(mode)
    \/ \E i \in 1..MaxSessionStarts : handleStart(i)
    \/ \E i \in 1..MaxSessionStarts : TokenFetched(i)
    \/ \E i \in 1..MaxSessionStarts : StartVoiceFails(i)
    \/ \E i \in 1..MaxSessionStarts : startVoiceListening(i)
    \/ \E j \in 1..MaxSessionStarts : PageSocketOpen(j)
    \/ \E j \in 1..MaxSessionStarts, transcript \in SessionTranscripts, endOfTurn \in BOOLEAN :
           handleTranscriptionUpdate(j, transcript, endOfTurn)
    \/ \E t \in timers : TimerFires(t)
    \/ handlePause
    \/ handleStop
    \/ \E j \in 1..MaxSessionStarts : PageSocketError(j)
    \/ \E j \in 1..MaxSessionStarts : PageSocketClose(j)

SessionSpec == SessionStart /\ [][SessionNext]_vars

\* ------------------------------------------------------------------ claims

\* a step that resets the hook tracker: resetVoiceMode or a script replacement
HookReset == resetVoiceMode \/ \E s \in 1..Len(HookScripts) : ScriptEffect(s)

HookFinalStep ==
    \E i \in 1..MaxHookStarts, text \in HookTranscripts : HookFinalMessage(i, text)

HookPartialStep ==
    \E i \in 1..MaxHookStarts, text \in HookTranscripts : HookPartialMessage(i, text)

SpokenFlags(words) == [i \in DOMAIN words |-> words[i].isSpoken]

\* C1: in the hook, lastMatchedWordIndex never decreases over partial and final
\* transcript events; a step that lowers it is resetVoiceMode or a script
\* replacement, and it lowers it to -1
C1_LastMatchedNeverDecreases ==
    [][lastMatchedWordIndex' < lastMatchedWordIndex
          => HookReset /\ lastMatchedWordIndex' = -1]_vars

\* two final events have advanced the position past the first search window
C1_Witness ==
    lastMatchedWordIndex >= SEARCH_WINDOW_SIZE

\* the spoken words are the words 0..k for some k
SpokenIsPrefix ==
    \A i, j \in DOMAIN scriptWords :
        (i < j /\ scriptWords[j].isSpoken) => scriptWords[i].isSpoken

\* C2: in the hook, a final hit at index m marks every word 0..m spoken, the
\* spoken words are a contiguous prefix of the script in every reachable state,
\* and a spoken word stays spoken until resetVoiceMode or a script replacement
C2_SpokenPrefix ==
    /\ []SpokenIsPrefix
    /\ [][(HookFinalStep /\ lastMatchedWordIndex' # lastMatchedWordIndex)
             => \A i \in DOMAIN scriptWords' :
                    i <= lastMatchedWordIndex' => scriptWords'[i].isSpoken]_vars
    /\ [][(\E i \in DOMAIN scriptWords :
              scriptWords[i].isSpoken
              /\ ~(i \in DOMAIN scriptWords' /\ scriptWords'[i].isSpoken))
             => HookReset]_vars

\* more words are spoken than one search window holds
C2_Witness ==
    /\ SEARCH_WINDOW_SIZE \in DOMAIN scriptWords
    /\ \A i \in 0..SEARCH_WINDOW_SIZE : scriptWords[i].isSpoken

\* C3: in the hook, at most one script word has isCurrent true
C3_AtMostOneCurrent ==
    Cardinality({i \in DOMAIN scriptWords : scriptWords[i].isCurrent}) <= 1

\* a partial has made a word current after a final advanced the position
C3_Witness ==
    /\ lastMatchedWordIndex >= 0
    /\ \E i \in DOMAIN scriptWords : scriptWords[i].isCurrent

\* C4: handling a partial transcript in the hook leaves lastMatchedWordIndex and
\* every isSpoken flag as they were
C4_PartialLeavesSpoken ==
    [][HookPartialStep
          => /\ lastMatchedWordIndex' = lastMatchedWordIndex
             /\ SpokenFlags(scriptWords') = SpokenFlags(scriptWords)]_vars

\* a partial has hit a word that is not spoken, the position still at -1
C4_Witness ==
    /\ lastMatchedWordIndex = -1
    /\ \E i \in DOMAIN scriptWords :
           scriptWords[i].isCurrent /\ ~scriptWords[i].isSpoken

\* the state a reset of the hook is to leave
HookIdle ==
    /\ \A i \in DOMAIN scriptWords : ~scriptWords[i].isSpoken /\ ~scriptWords[i].isCurrent
    /\ lastMatchedWordIndex = -1
    /\ ~isListening

\* the state a reset of the page is to leave
PageIdle ==
    /\ voiceState.spokenWords = {}
    /\ voiceState.currentWordIndex = -1
    /\ voiceState.nextWordIndex = -1
    /\ timers = {}
    /\ ~voiceState.isListening

\* C5: after a reset (resetVoiceMode in the hook, handleStop in the page, the
\* page still mounted) no word is spoken or current, the position is -1, no
\* debounced alignment is pending and the session is not listening
C5_ResetLeavesIdle ==
    /\ [][resetVoiceMode => HookIdle']_vars
    /\ [][(handleStop /\ mounted') => PageIdle']_vars

\* a Turn message with endOfTurn and a changed, non-empty transcript
FinalWithNewText(j, transcript) ==
    /\ handleTranscriptionUpdate(j, transcript, TRUE)
    /\ Trim(transcript) # <<>>
    /\ transcript # lastTranscriptRef

\* C6: in the page, every final event is aligned: after a final with a changed
\* transcript is handled, the alignment of that transcript is pending
C6_FinalsAreAligned ==
    [][\A j \in 1..MaxPageStarts, transcript \in PageTranscripts :
          FinalWithNewText(j, transcript)
              => \E t \in timers' : t.transcript = transcript]_vars

\* a Turn message with a changed, non-empty transcript
MessageWithNewText(j, transcript, endOfTurn) ==
    /\ handleTranscriptionUpdate(j, transcript, endOfTurn)
    /\ Trim(transcript) # <<>>
    /\ transcript # lastTranscriptRef

\* C7: in the page at most one debounced alignment is pending, and a message
\* with a changed, non-empty transcript removes the pending one: what is pending
\* afterwards is for the text of that message alone
C7_OnePendingAlignment ==
    /\ [](Cardinality(timers) <= 1)
    /\ [][\A j \in 1..MaxPageStarts, transcript \in PageTranscripts, endOfTurn \in BOOLEAN :
             MessageWithNewText(j, transcript, endOfTurn)
                 => /\ timers \cap timers' = {}
                    /\ \A t \in timers' : t.transcript = transcript]_vars
    /\ [][\A t \in timers' \ timers :
             \E j \in 1..MaxPageStarts :
                 MessageWithNewText(j, t.transcript, FALSE)]_vars

\* a message has replaced a pending alignment by its own
C7_Witness ==
    /\ timerEvent = "superseded"
    /\ Cardinality(timers) = 1

\* C8: when the page handles a final event, no debounced alignment is pending
\* afterwards, so none set earlier can fire
C8_FinalCancelsPending ==
    [][(\E j \in 1..MaxPageStarts, transcript \in PageTranscripts :
            handleTranscriptionUpdate(j, transcript, TRUE))
          => timers' = {} /\ debounceTimeoutRef' = 0]_vars

\* a final has been handled while an alignment was pending
C8_Witness ==
    /\ timerEvent = "cancelled"
    /\ timers = {}

\* C9: in the page, the alignment of a session that has seen a stop or reset
\* leaves currentWordIndex, nextWordIndex and spokenWords as they were
C9_NoAlignmentAfterStop ==
    [][\A t \in timers :
          (TimerFires(t) /\ pageSockets[t.socket].stopped)
              => pageHighlight' = pageHighlight]_vars

\* C10: in the page, currentWordIndex decreases by handleStop only
C10_PointerNeverDecreases ==
    [][voiceState'.currentWordIndex < voiceState.currentWordIndex => handleStop]_vars


\* --------------------------------------------------------- findBestMatch

\* findBestMatch has returned from a call with a prior position and a candidate
EngineGuarded ==
    /\ engine.stage = "returned"
    /\ engine.currentPosition # -1
    /\ engine.bestMatch.index # -1

\* the candidate starts more than 20 words from the prior position
EngineFar == Abs(engine.bestMatch.index - engine.currentPosition) > 20

\* the candidate's score is below 0.8
EngineLowScore == engine.bestMatch.score < 80 * Len(engine.transcript)

\* C11: with a prior position other than -1, findBestMatch returns no match
\* when its best candidate starts more than 20 words from the prior position
\* and scores below 0.8; a candidate within 20 words, or one that scores at
\* least 0.8, is returned
C11_JumpGuard ==
    EngineGuarded =>
        IF EngineFar /\ EngineLowScore
        THEN engine.result = NullMatch
        ELSE engine.result = engine.bestMatch

\* a far candidate of low score was rejected
C11_Witness == EngineGuarded /\ EngineFar /\ EngineLowScore /\ engine.result = NullMatch

\* a far candidate that scores at least 0.8 was returned
C11_FarKept == EngineGuarded /\ EngineFar /\ ~EngineLowScore /\ engine.result.index # -1

\* a candidate of low score within 20 words was returned
C11_NearKept == EngineGuarded /\ ~EngineFar /\ EngineLowScore /\ engine.result.index # -1

\* the windows findWordLevelMatch scores in a sentence, as pairs of the word
\* index a window starts at and its text
SentenceWindows(sentence, transcript, sentenceWordOffset) ==
    LET sentenceWords == WordsOf(ToLowerCase(sentence))
        n == Len(WordsOf(ToLowerCase(transcript)))
    IN  IF n = 0 THEN {}
        ELSE { <<sentenceWordOffset + i, Join(SubSeq(sentenceWords, i + 1, i + windowSize))>> :
                 <<windowSize, i>> \in
                   { sz \in {n, Max(1, n - 1), n + 1, n + 2} \X (0..Len(sentenceWords)) :
                       sz[2] <= Len(sentenceWords) - sz[1] } }

\* the windows the call of the state scores: those of the top sentence matches
EngineWindows ==
    LET matcher == engine.matcher
        sentenceResults == SentenceSearch(matcher.sentences, engine.transcript)
    IN  IF Trim(engine.transcript) = <<>> \/ Len(matcher.words) = 0 THEN {}
        ELSE UNION { SentenceWindows(matcher.sentences[sentenceResults[r]], engine.transcript,
                                     matcher.sentenceWordOffsets[sentenceResults[r]]) :
                       r \in 1..Min(3, Len(sentenceResults)) }

\* the score of a window in the call of the state, and its base score
EngineScore(w) == WindowScore(w[2], engine.transcript, w[1], engine.currentPosition)

EngineBase(w) == WindowScore(w[2], engine.transcript, w[1], -1)

\* window a is at or after the prior position and at least as close to it as b
AheadAndAsClose(a, b) ==
    /\ a[1] >= engine.currentPosition
    /\ Abs(a[1] - engine.currentPosition) <= Abs(b[1] - engine.currentPosition)

\* C12: with a prior position p other than -1 the score of a window is its
\* base score plus 0.1 when it starts at or after p, plus
\* max(0, 0.1 - 0.01 * |start - p|); of two windows of equal base score the one
\* at or after p and at least as close to p never scores lower; with p = -1
\* the score is the base score
C12_PositionalBonus ==
    engine.stage = "returned" =>
        LET u == Len(engine.transcript)
            p == engine.currentPosition
        IN  \A a \in EngineWindows :
                EngineBase(a) >= 0 =>
                    /\ EngineScore(a) = EngineBase(a)
                           + (IF p = -1 THEN 0
                              ELSE (IF a[1] >= p THEN 10 * u ELSE 0)
                                   + Max(0, 10 * u - Abs(a[1] - p) * u))
                    /\ \A b \in EngineWindows :
                           (p # -1 /\ EngineBase(b) = EngineBase(a) /\ AheadAndAsClose(a, b))
                               => EngineScore(a) >= EngineScore(b)

\* two windows of equal base score, the one ahead and as close scoring higher
\* and returned
C12_Witness ==
    /\ engine.stage = "returned"
    /\ engine.currentPosition # -1
    /\ \E a, b \in EngineWindows :
           /\ EngineBase(a) >= 0
           /\ EngineBase(b) = EngineBase(a)
           /\ AheadAndAsClose(a, b)
           /\ Abs(a[1] - engine.currentPosition) = Abs(b[1] - engine.currentPosition)
           /\ EngineScore(a) > EngineScore(b)
           /\ engine.result.index = a[1]

\* the windows the call of the state scores above 0, each with the place it
\* is found at: the rank r of its sentence among the top sentence matches, the
\* place w of its size among the window sizes, its offset i in the sentence
EngineTries ==
    LET matcher == engine.matcher
        sentenceResults == SentenceSearch(matcher.sentences, engine.transcript)
        n == Len(WordsOf(ToLowerCase(engine.transcript)))
        sizes == <<n, Max(1, n - 1), n + 1, n + 2>>
        sentenceWords(r) == WordsOf(ToLowerCase(matcher.sentences[sentenceResults[r]]))
        offset(r) == matcher.sentenceWordOffsets[sentenceResults[r]]
        text(r, w, i) == Join(SubSeq(sentenceWords(r), i + 1, i + sizes[w]))
        places == IF Trim(engine.transcript) = <<>> \/ Len(matcher.words) = 0 THEN {}
                  ELSE { t \in (1..Min(3, Len(sentenceResults))) \X (1..4) \X (0..Len(matcher.words)) :
                           t[3] <= Len(sentenceWords(t[1])) - sizes[t[2]] }
        all == { [r |-> t[1], w |-> t[2], i |-> t[3],
                  index |-> offset(t[1]) + t[3],
                  size |-> sizes[t[2]],
                  score |-> WindowScore(text(t[1], t[2], t[3]), engine.transcript,
                                        offset(t[1]) + t[3], engine.currentPosition)] :
                 t \in places }
    IN  { t \in all : t.score > 0 }

\* the tries of the best score
EngineBestTries == { t \in EngineTries : \A o \in EngineTries : o.score <= t.score }

\* try a is found before try b, or is b
FoundNoLater(a, b) ==
    \/ a.r < b.r
    \/ a.r = b.r /\ a.w < b.w
    \/ a.r = b.r /\ a.w = b.w /\ a.i <= b.i

\* C13: when several windows share the best score, bestMatch is the first of
\* them found: that of the earliest sentence in the rank order of the sentence
\* search and, within the sentence, the first one tried
C13_FirstFound ==
    engine.stage = "returned" =>
        IF EngineTries = {} THEN engine.bestMatch = NullMatch
        ELSE \E t \in EngineBestTries :
                /\ \A o \in EngineBestTries : FoundNoLater(t, o)
                /\ engine.bestMatch.index = t.index
                /\ engine.bestMatch.score = t.score
                /\ Len(engine.bestMatch.spokenWordIndices) = t.size

\* windows of two sentences and of two offsets in a sentence share the best
\* score, and the first of the first sentence is returned
C13_Witness ==
    /\ engine.stage = "returned"
    /\ \E a, b, c \in EngineBestTries :
           /\ a.r = 1 /\ b.r = 1 /\ a.w = b.w /\ a.i < b.i
           /\ c.r = 2
           /\ \A o \in EngineBestTries : FoundNoLater(a, o)
           /\ engine.result.index = a.index

\* the transcript of the call is empty or whitespace only, or the script of
\* the matcher has no words
EngineDegenerate ==
    \/ Trim(engine.transcript) = <<>>
    \/ Len(engine.matcher.words) = 0

\* C14: findBestMatch returns no match and leaves the matcher as it is
\* whenever the transcript is empty or whitespace only or the script has no
\* words, for every prior position
C14_DegenerateInput ==
    [][(EngineFindBestMatch /\ EngineDegenerate)
          => /\ engine'.result.index = -1
             /\ engine'.result.spokenWordIndices = <<>>
             /\ engine'.result.nextWordIndex = -1
             /\ engine'.matcher = engine.matcher]_vars

\* a whitespace-only transcript over a script with words, with a prior
\* position, was answered with no match
C14_Witness ==
    /\ engine.stage = "returned"
    /\ engine.transcript # <<>> /\ Trim(engine.transcript) = <<>>
    /\ Len(engine.matcher.words) > 0
    /\ engine.currentPosition # -1
    /\ engine.result = NullMatch

\* a transcript with words over a script without words was answered with no
\* match
C14_EmptyScript ==
    /\ engine.stage = "returned"
    /\ Trim(engine.transcript) # <<>>
    /\ Len(engine.matcher.words) = 0
    /\ engine.result = NullMatch

\* --------------------------------------------------- FuseTextMatcher constructor

\* the places in a text where a sentence starts: the first character that is
\* not whitespace after the start of the text or after a sentence terminator
SentenceStarts(text) ==
    { q \in 1..Len(text) :
        /\ text[q] \notin Whitespace \cup {".", "!", "?"}
        /\ \E a \in 1..q :
              /\ a = 1 \/ text[a - 1] \in {".", "!", "?"}
              /\ \A k \in a..(q - 1) : text[k] \in Whitespace }

\* the index in words of the whitespace-split token that holds place q
WordIndexAt(text, q) ==
    Cardinality({ k \in 1..q : text[k] \notin Whitespace
                                /\ (k = 1 \/ text[k - 1] \in Whitespace) }) - 1

\* the i-th least element of a set of numbers
Nth(set, i) == CHOOSE q \in set : Cardinality({ o \in set : o <= q }) = i

\* C15: sentenceWordOffsets[i] is the index in words of the first word of
\* sentences[i], for every script text, punctuation inside or between tokens
\* included
C15_OffsetsAreWordIndices ==
    LET text == EngineScripts[engine.script]
        matcher == engine.matcher
    IN  /\ Len(matcher.sentences) = Cardinality(SentenceStarts(text))
        /\ \A i \in 1..Len(matcher.sentences) :
              matcher.sentenceWordOffsets[i] = WordIndexAt(text, Nth(SentenceStarts(text), i))

\* ------------------------------------------------------------- MatchResult

\* C16: every match findBestMatch returns has spokenWordIndices index,
\* index + 1, ..., index + k - 1 for a window of k >= 1 words, and
\* nextWordIndex index + k when that is less than the word count of the
\* script, else -1
C16_MatchShape ==
    (engine.stage = "returned" /\ engine.result # NullMatch) =>
        LET m == engine.result
            k == Len(m.spokenWordIndices)
        IN  /\ k >= 1
            /\ m.index >= 0
            /\ \A j \in 1..k : m.spokenWordIndices[j] = m.index + j - 1
            /\ m.nextWordIndex = IF m.index + k < Len(engine.matcher.words)
                                 THEN m.index + k ELSE -1

\* a match that ends before the end of the script was returned
C16_Witness ==
    /\ engine.stage = "returned"
    /\ Len(engine.result.spokenWordIndices) >= 2
    /\ engine.result.nextWordIndex = engine.result.index + Len(engine.result.spokenWordIndices)

\* a match that ends at the end of the script was returned
C16_AtEnd ==
    /\ engine.stage = "returned"
    /\ engine.result.index >= 0
    /\ engine.result.index + Len(engine.result.spokenWordIndices) = Len(engine.matcher.words)
    /\ engine.result.nextWordIndex = -1

\* ------------------------------------------------------------------ echo

\* the n script words that follow lastMatchedWordIndex, as one transcript
EchoText(n) ==
    Join([k \in 1..n |-> scriptWords[lastMatchedWordIndex + k].rawWord])

\* text is the n >= 1 script words that follow lastMatchedWordIndex
IsEcho(text, n) ==
    /\ n >= 1
    /\ lastMatchedWordIndex + n < WordCount(scriptWords)
    /\ text = EchoText(n)

\* C17: a final transcript that consists exactly of the n script words that
\* follow lastMatchedWordIndex, in order, leaves lastMatchedWordIndex advanced
\* by n and the words 0..lastMatchedWordIndex spoken
C17_ExactEcho ==
    [][\A i \in 1..MaxHookStarts, text \in HookTranscripts, n \in 1..2 :
          (HookFinalMessage(i, text) /\ IsEcho(text, n))
              => /\ lastMatchedWordIndex' = lastMatchedWordIndex + n
                 /\ \A w \in 0..lastMatchedWordIndex' : scriptWords'[w].isSpoken]_vars

\* ------------------------------------------------------------------- fuzz

\* the scorer named has returned
Returned(scorer) == fuzz.stage = "returned" /\ fuzz.scorer = scorer

\* C18: ratio is symmetric: ratio(a, b) = ratio(b, a) for all strings a and b
C18_RatioSymmetric ==
    Returned("ratio") => fuzz.result = ratio(fuzz.s2, fuzz.s1)

\* ratio has scored two different strings of different lengths as partly alike
C18_Witness ==
    /\ Returned("ratio")
    /\ fuzz.s1.type = "string" /\ fuzz.s2.type = "string"
    /\ Len(fuzz.s1.chars) < Len(fuzz.s2.chars)
    /\ fuzz.result \in 1..99

\* C19: every scorer returns an integer between 0 and 100, and returns 0 when
\* either input is null or undefined
C19_ScoreRange ==
    fuzz.stage = "returned" =>
        /\ fuzz.result \in 0..100
        /\ (fuzz.s1 \in {Null, Undefined} \/ fuzz.s2 \in {Null, Undefined}) => fuzz.result = 0

\* UWRatio has answered two missing values with 0
C19_Witness ==
    /\ Returned("UWRatio")
    /\ fuzz.s1 = Null /\ fuzz.s2 = Undefined
    /\ fuzz.result = 0

\* WRatio has returned a score that is neither 0 nor 100
C19_Between == Returned("WRatio") /\ fuzz.result \in 1..99

\* the token set of a string as token_set_ratio normalizes it in the call of
\* the state
CallTokenSet(s) ==
    TokenSet(IF fuzz.options.full_process THEN full_process(s, fuzz.options.force_ascii)
             ELSE s)

\* C20: token_set_ratio(a, b) = 0 whenever the normalized token sets of a and
\* b are disjoint, token sets that are empty included
C20_DisjointScoresZero ==
    (/\ Returned("token_set_ratio")
     /\ fuzz.s1.type = "string" /\ fuzz.s2.type = "string"
     /\ CallTokenSet(fuzz.s1.chars) \cap CallTokenSet(fuzz.s2.chars) = {})
        => fuzz.result = 0

\* the sorted tokens of a set, joined by single spaces
SortedJoin(set) == Trim(Join(SortSet(set)))

\* sect followed by the tokens of diff
Combined(sect, diff) == Trim(SortedJoin(sect) \o <<" ">> \o SortedJoin(diff))

\* C21: for inputs whose token sets intersect, token_set_ratio(a, b) is the
\* greatest ratio over the three pairings of sect, sect + diffA and
\* sect + diffB, where sect is the sorted intersection, diffA the sorted tokens
\* of a that are not in b and diffB the sorted tokens of b that are not in a
C21_TokenSetIsMaxOfPairings ==
    (/\ Returned("token_set_ratio")
     /\ fuzz.s1.type = "string" /\ fuzz.s2.type = "string"
     /\ CallTokenSet(fuzz.s1.chars) \cap CallTokenSet(fuzz.s2.chars) # {})
        => LET tokensA == CallTokenSet(fuzz.s1.chars)
               tokensB == CallTokenSet(fuzz.s2.chars)
               sect == tokensA \cap tokensB
               combinedA == Combined(sect, tokensA \ tokensB)
               combinedB == Combined(sect, tokensB \ tokensA)
           IN  fuzz.result = Max(RatioOf(SortedJoin(sect), combinedA),
                                 Max(RatioOf(SortedJoin(sect), combinedB),
                                     RatioOf(combinedA, combinedB)))

\* a call of the named function of process has returned
ProcessDone(function) == fuzz.stage = "returned" /\ fuzz.function = function

\* the strings of a list
Strings(list) == {list[k] : k \in 1..Len(list)}

\* C22: dedupe is idempotent: deduplicating the list dedupe returned, with the
\* same threshold and scorer, returns the same set of strings.
C22_DedupeIdempotent ==
    ProcessDone("dedupe")
        => \A again \in {dedupe(fuzz.result, fuzz.scorer, fuzz.score_cutoff)} :
               Strings(again) = Strings(fuzz.result)

\* the score the scorer of the call gives the choice at place k
ChoiceScore(k) ==
    ScoreWith(IF fuzz.scorer = "unset" THEN "WRatio" ELSE fuzz.scorer,
              Processor(fuzz.query), Processor(fuzz.choices[k]))

\* the places of the non-null choices whose score is at least score_cutoff
Candidates ==
    {k \in 1..Len(fuzz.choices) :
        fuzz.choices[k] \notin {Null, Undefined} /\ ChoiceScore(k) >= fuzz.score_cutoff}

\* the candidate at place o comes before the one at place k: a higher score,
\* or the same score and earlier in the input
ComesBefore(o, k) ==
    \/ ChoiceScore(o) > ChoiceScore(k)
    \/ ChoiceScore(o) = ChoiceScore(k) /\ o < k

\* the candidate that has exactly place - 1 candidates before it
CandidateAt(place) ==
    CHOOSE k \in Candidates :
        Cardinality({o \in Candidates : ComesBefore(o, k)}) = place - 1

\* C23: extractBests returns the non-null candidates whose score is at least
\* score_cutoff, by descending score, candidates of equal score in their input
\* order: entry by entry the result is that list, and all of it when the limit
\* is null.
C23_ExtractBestsFilteredAndOrdered ==
    ProcessDone("extractBests")
        => /\ Len(fuzz.result) <= Cardinality(Candidates)
           /\ fuzz.limit = Null => Len(fuzz.result) = Cardinality(Candidates)
           /\ \A place \in 1..Len(fuzz.result) :
                  /\ fuzz.result[place].choice = fuzz.choices[CandidateAt(place)]
                  /\ fuzz.result[place].score = ChoiceScore(CandidateAt(place))

\* extractBests has returned, without a limit, a list where two candidates of
\* equal score follow a higher one, and has left out a null and a low score
C23_Witness ==
    /\ ProcessDone("extractBests")
    /\ fuzz.limit = Null
    /\ \E k \in 1..Len(fuzz.choices) : fuzz.choices[k] = Null
    /\ \E k \in 1..Len(fuzz.choices) :
           fuzz.choices[k] # Null /\ ChoiceScore(k) < fuzz.score_cutoff
    /\ \E place \in 2..(Len(fuzz.result) - 1) :
           /\ fuzz.result[place].score = fuzz.result[place + 1].score
           /\ fuzz.result[place - 1].score > fuzz.result[place].score
           /\ CandidateAt(place - 1) > CandidateAt(place)

\* C24: extractBests truncates its result to limit entries when a limit is
\* given, and returns every candidate that meets the cutoff when limit is left
\* unset.
C24_LimitTruncates ==
    ProcessDone("extractBests")
        => /\ fuzz.limit.type = "number"
                  => Len(fuzz.result) = Min(fuzz.limit.value, Cardinality(Candidates))
           /\ fuzz.limit = Undefined => Len(fuzz.result) = Cardinality(Candidates)

\* C26: extractBests, extractOne or dedupe called with a cutoff or threshold
\* outside 0..100 raises an error instead of returning a result.
C26_CutoffOutOfRangeThrows ==
    (/\ fuzz.stage = "returned"
     /\ fuzz.function \in {"extractBests", "extractOne", "dedupe"}
     /\ fuzz.score_cutoff \notin 0..100)
        => fuzz.threw

\* the hook's part of C25: an error of the socket of a listening session
\* leaves the hook not listening, with the audio pipeline and the socket released
C25_HookErrorEndsSession ==
    \A i \in 1..MaxHookStarts :
        (isListening /\ socketRef = i /\ HookSocketError(i))
            => /\ ~isListening'
               /\ socketRef' = 0 /\ hookSockets'[i] = NoSocket
               /\ mediaRecorderRef' = 0 /\ hookAudio' = {}

\* the page's part of C25, for the socket voiceState holds while listening
C25_PageErrorEndsSession ==
    \A j \in 1..MaxPageStarts :
        (voiceState.isListening /\ voiceState.socket = j /\ PageSocketError(j))
            => /\ ~voiceState'.isListening
               /\ voiceState'.socket = 0 /\ voiceState'.audioContext = 0
               /\ pageSockets'[j] = NoPageSocket

\* the page alone: every error of the session's socket ends the session
C25_PageAlone == [][C25_PageErrorEndsSession]_vars

\* C25: when the transcription WebSocket reports an error during an active
\* session, the session ends: isListening is false and the audio pipeline
\* and the socket are released, in the hook and in the page.
C25_SocketErrorEndsSession ==
    [][C25_HookErrorEndsSession /\ C25_PageErrorEndsSession]_vars

\* the hits of the loop of handleFinalTranscript: for each transcribed word
\* that matches, the last matched index at that moment and the index it matches
RECURSIVE FinalHits(_, _, _)
FinalHits(transcribedWords, closureWords, localLastMatchIndex) ==
    IF transcribedWords = <<>> THEN <<>>
    ELSE LET searchSlice == SearchSlice(closureWords, localLastMatchIndex)
             m == IF Len(searchSlice) = 0 THEN -1
                  ELSE FuseBestId(searchSlice, Head(transcribedWords), FUSE_THRESHOLD)
         IN  IF m = -1
             THEN FinalHits(Tail(transcribedWords), closureWords, localLastMatchIndex)
             ELSE <<[from |-> localLastMatchIndex, hit |-> m]>>
                      \o FinalHits(Tail(transcribedWords), closureWords, m)

\* i is one of the 8 script words just after last
InWindowAfter(i, last) == last < i /\ i <= last + 8

\* a final message of n tokens: every hit lies in the window of its moment, the
\* index advances by at least 1 for each hit and by at most 8 * n in all
FinalStaysInWindow(i, text) ==
    HookFinalMessage(i, text)
        => \A n \in {Len(NonEmpty(SplitChar(ToLowerCase(text), {" "})))} :
           \A hits \in {FinalHits(NonEmpty(SplitChar(ToLowerCase(text), {" "})),
                                  HookWords[hookSockets[i].script],
                                  lastMatchedWordIndex)} :
               /\ \A h \in 1..Len(hits) : InWindowAfter(hits[h].hit, hits[h].from)
               /\ hits # <<>> => lastMatchedWordIndex' = hits[Len(hits)].hit
               /\ lastMatchedWordIndex' >= lastMatchedWordIndex + Len(hits)
               /\ lastMatchedWordIndex' <= lastMatchedWordIndex + 8 * n

\* a partial message: every word it makes current lies in the window
PartialStaysInWindow(i, text) ==
    HookPartialMessage(i, text)
        => \A w \in DOMAIN scriptWords' :
               (scriptWords'[w].isCurrent /\ ~scriptWords[w].isCurrent)
                   => InWindowAfter(w, lastMatchedWordIndex)

\* C27: in useVoiceMode every index a partial event marks current and every
\* index a token of a final event matches lies in the 8 script words just
\* after the last matched index at that moment; a final event of n tokens
\* advances lastMatchedWordIndex by at most 8 * n, each hit by at least 1.
C27_MatchesStayInWindow ==
    [][\A i \in 1..MaxHookStarts, text \in HookTranscripts :
           FinalStaysInWindow(i, text) /\ PartialStaysInWindow(i, text)]_vars

\* a partial has made current the last word of the window, 8 after the last
\* matched index, and the last matched index came from a final
C27_Witness ==
    /\ lastMatchedWordIndex >= 0
    /\ lastMatchedWordIndex + 8 \in DOMAIN scriptWords
    /\ scriptWords[lastMatchedWordIndex + 8].isCurrent
    /\ scriptWords[lastMatchedWordIndex].isSpoken

\* the unit-cost edit distance by its recurrence: the least number of
\* insertions, deletions and substitutions of one character that turn s into t
RECURSIVE EditDistance(_, _)
EditDistance(s, t) ==
    IF s = <<>> THEN Len(t)
    ELSE IF t = <<>> THEN Len(s)
    ELSE Min(EditDistance(Tail(s), t) + 1,
             Min(EditDistance(s, Tail(t)) + 1,
                 EditDistance(Tail(s), Tail(t)) + (IF Head(s) = Head(t) THEN 0 ELSE 1)))

\* C28: levenshtein(s1, s2), computed with two rolling rows, equals the
\* unit-cost edit distance of s1 and s2, for empty and identical strings too.
C28_LevenshteinIsEditDistance ==
    (fuzz.stage = "returned" /\ fuzz.function = "levenshtein")
        => \A s \in {fuzz.s1.chars}, t \in {fuzz.s2.chars} :
               fuzz.result = EditDistance(s, t)

\* levenshtein has returned a distance that takes a substitution and an
\* insertion or deletion, less than both lengths
C28_Witness ==
    /\ fuzz.stage = "returned" /\ fuzz.function = "levenshtein"
    /\ Len(fuzz.s1.chars) # Len(fuzz.s2.chars)
    /\ fuzz.result > Abs(Len(fuzz.s1.chars) - Len(fuzz.s2.chars))
    /\ fuzz.result < Min(Len(fuzz.s1.chars), Len(fuzz.s2.chars))

\* levenshtein has returned the other length for an empty string, and 0
\* for two identical strings
C28_EmptyAndIdentical ==
    /\ fuzz.stage = "returned" /\ fuzz.function = "levenshtein"
    /\ \/ fuzz.s1.chars = <<>> /\ fuzz.s2.chars # <<>> /\ fuzz.result = Len(fuzz.s2.chars)
       \/ fuzz.s1 = fuzz.s2 /\ fuzz.s1.chars # <<>> /\ fuzz.result = 0

\* the string a scorer called with full_process off is given for s
Normalized(s) ==
    IF fuzz.options.full_process THEN full_process(s.chars, fuzz.options.force_ascii)
    ELSE s.chars

\* the largest of a set of numbers
Largest(set) == CHOOSE x \in set : \A y \in set : y <= x

\* the three scores WRatio always takes, in thousandths
BaseScores(p1, p2) ==
    {1000 * ratio(p1, p2),
     950 * token_sort_ratio(p1, p2, Unprocessed),
     950 * token_set_ratio(p1, p2, Unprocessed)}

\* the scores of the partial scorers, scaled by 0.9, in thousandths
PartialScores(p1, p2) ==
    {900 * partial_ratio(p1, p2),
     855 * partial_token_sort_ratio(p1, p2, Unprocessed),
     855 * partial_token_set_ratio(p1, p2, Unprocessed)}

\* the longer of the two strings is more than 1.5 times the shorter
LengthRatioAbove(p1, p2) ==
    2 * Max(Len(p1.chars), Len(p2.chars)) > 3 * Min(Len(p1.chars), Len(p2.chars))

\* WRatio has returned for two strings that normalize to non-empty strings
WRatioOnNonEmpty ==
    /\ Returned("WRatio")
    /\ fuzz.s1.type = "string" /\ fuzz.s2.type = "string"
    /\ Normalized(fuzz.s1) # <<>> /\ Normalized(fuzz.s2) # <<>>

\* C29: WRatio on two strings that normalize to non-empty p1, p2 returns the
\* rounded maximum of ratio, 0.95 token_sort_ratio and 0.95 token_set_ratio
\* when the longer is at most 1.5 times the shorter, and takes 0.9
\* partial_ratio, 0.9 * 0.95 partial_token_sort_ratio and 0.9 * 0.95
\* partial_token_set_ratio into the maximum as well when it is more.
C29_WRatioComposition ==
    WRatioOnNonEmpty
        => \A p1 \in {Str(Normalized(fuzz.s1))}, p2 \in {Str(Normalized(fuzz.s2))} :
               fuzz.result =
                   RoundDiv(Largest(IF LengthRatioAbove(p1, p2)
                                    THEN BaseScores(p1, p2) \cup PartialScores(p1, p2)
                                    ELSE BaseScores(p1, p2)),
                            1000)

\* WRatio has returned, for lengths within 1.5 of each other, a score below
\* what the partial scorers would have given
C29_Witness ==
    /\ WRatioOnNonEmpty
    /\ ~LengthRatioAbove(Str(Normalized(fuzz.s1)), Str(Normalized(fuzz.s2)))
    /\ 1000 * fuzz.result + 500
           < Largest(PartialScores(Str(Normalized(fuzz.s1)), Str(Normalized(fuzz.s2))))

\* WRatio has returned, for a length ratio above 1.5, a score only a partial
\* scorer gives
C29_PartialDecides ==
    /\ WRatioOnNonEmpty
    /\ LengthRatioAbove(Str(Normalized(fuzz.s1)), Str(Normalized(fuzz.s2)))
    /\ 1000 * fuzz.result
           > 500 + Largest(BaseScores(Str(Normalized(fuzz.s1)), Str(Normalized(fuzz.s2))))

\* the characters of a canonical string apart from the space
LowerLettersAndDigits == {"a", "b", "c", "1"}

\* only lowercase letters, digits and single spaces, no space at either end
IsCanonical(s) ==
    /\ \A i \in 1..Len(s) : s[i] \in LowerLettersAndDigits \cup {" "}
    /\ \A i \in 1..(Len(s) - 1) : ~(s[i] = " " /\ s[i + 1] = " ")
    /\ s # <<>> => s[1] # " " /\ s[Len(s)] # " "

\* C30: full_process yields a canonical form and is idempotent: the output
\* holds only lowercase letters, digits and single spaces, with no space at
\* either end, and full_process of the output is the output.
C30_FullProcessCanonical ==
    (fuzz.stage = "returned" /\ fuzz.function = "full_process")
        => /\ IsCanonical(fuzz.result)
           /\ FullProcess(Str(fuzz.result), fuzz.force_ascii) = fuzz.result

\* full_process has returned "a b1" for a string with upper case, punctuation,
\* a line break, and blanks at the ends and in a run
C30_Witness ==
    /\ fuzz.stage = "returned" /\ fuzz.function = "full_process"
    /\ fuzz.s1 = Str(<<" ", "A", "!", "\n", " ", "b", "1", " ">>)
    /\ fuzz.result = <<"a", " ", "b", "1">>

\* full_process has returned the empty string for null
C30_Null ==
    /\ fuzz.stage = "returned" /\ fuzz.function = "full_process"
    /\ fuzz.s1 = Null /\ fuzz.result = <<>>

\* C31: each debounced alignment of the page passes to the engine, as the
\* prior position, the last known script position: voiceState.currentWordIndex
\* as the most recently applied match (or the last reset) left it, also when
\* the socket's handler was set before that match.
C31_AlignmentPassesLastPosition ==
    [][\A t \in timers :
           TimerFires(t) => t.currentPosition = voiceState.currentWordIndex]_vars

\* the last matched index is the last word of the script
AtLastWord == lastMatchedWordIndex = WordCount(scriptWords) - 1

\* C32: in every reachable state of useVoiceMode the last matched index lies
\* between -1 and the number of script words less one, and once it is the last
\* word a further partial or final event changes nothing.
C32_LastMatchedInRange ==
    /\ [](lastMatchedWordIndex >= -1 /\ lastMatchedWordIndex <= WordCount(scriptWords) - 1)
    /\ [][\A i \in 1..MaxHookStarts, text \in HookTranscripts :
              (AtLastWord /\ (HookFinalMessage(i, text) \/ HookPartialMessage(i, text)))
                  => UNCHANGED hookTracker]_vars

\* a final message has hit: the last matched index has moved
FinalHit(i, text) ==
    HookFinalMessage(i, text) /\ lastMatchedWordIndex' # lastMatchedWordIndex

\* C33: in every reachable state of useVoiceMode no word is both spoken and
\* current, every current word has an index above the last matched index, and
\* a final hit at m leaves no word of 0..m current.
C33_NoWordSpokenAndCurrent ==
    /\ [](\A w \in DOMAIN scriptWords :
              scriptWords[w].isCurrent
                  => ~scriptWords[w].isSpoken /\ w > lastMatchedWordIndex)
    /\ [][\A i \in 1..MaxHookStarts, text \in HookTranscripts :
              FinalHit(i, text)
                  => \A w \in DOMAIN scriptWords' :
                         w <= lastMatchedWordIndex' => ~scriptWords'[w].isCurrent]_vars

\* after a final hit a partial has made a later word current, the words up to
\* the hit spoken
C33_Witness ==
    /\ lastMatchedWordIndex >= 1
    /\ \A w \in DOMAIN scriptWords :
           w <= lastMatchedWordIndex => scriptWords[w].isSpoken
    /\ \E w \in DOMAIN scriptWords :
           w > lastMatchedWordIndex + 1 /\ scriptWords[w].isCurrent

\* C34: every index findBestMatch returns, index and each element of
\* spokenWordIndices, is the index of a word of the script:
\* 0 <= i < the word count
C34_IndicesAreWordIndices ==
    (engine.stage = "returned" /\ engine.result # NullMatch) =>
        LET m == engine.result
            n == Len(engine.matcher.words)
        IN  /\ m.index >= 0 /\ m.index < n
            /\ \A j \in 1..Len(m.spokenWordIndices) :
                   m.spokenWordIndices[j] >= 0 /\ m.spokenWordIndices[j] < n

\* the sockets of the page that are connecting or open
OpenPageSockets ==
    {j \in DOMAIN pageSockets : pageSockets[j].readyState \in {"CONNECTING", "OPEN"}}

\* C35: at most one transcription session is open at any time, also when
\* start is invoked again while an earlier start is still awaiting the token
\* or the microphone: no second socket is opened beside the first
C35_AtMostOneSession ==
    Cardinality(OpenPageSockets) <= 1

\* C36: a stop invoked while a start is still awaiting the token or the
\* microphone ends that start: the pending call does not go on to open a
\* socket and an audio pipeline and to set the session listening
C36_StopEndsPendingStart ==
    [][\A i \in DOMAIN pageCalls :
           (timerEvent = "stopped" /\ pageCalls[i].pc # "none")
               => ~startVoiceListening(i)]_vars

====
